---- MODULE Spec2Model ----
(***************************************************************************)
(* State-machine model of tokendito's Okta authentication core            *)
(* (src/tokendito/okta.py): idp_auth, user_authenticate, the MFA          *)
(* challenge dispatcher, the push-approval polling loop, SAML2 chaining   *)
(* and the OAuth2 authorization-code layer.                               *)
(*                                                                         *)
(* Python values are modelled as strings; the string "None" stands for    *)
(* Python's None and "absent" for a key that is missing from a JSON       *)
(* object.  sys.exit() ends the whole process: `outcome` records the      *)
(* failure and no action is enabled afterwards.                           *)
(***************************************************************************)
EXTENDS Integers, Sequences, FiniteSets, TLC

(***************************************************************************)
(* Bounds of the model                                                     *)
(***************************************************************************)
MaxPolls == 3
MaxFactors == 2
MaxDepth == 2

(***************************************************************************)
(* Program constants                                                       *)
(***************************************************************************)
\* push_approval docstring: "terminates if user wait goes 5 min" (seconds)
WaitWindow == 300

VARIABLES
    pc,                  \* position of the thread of control
    outcome,             \* "running", "returned" or the failure that ended the process
    retval,              \* what the outermost idp_auth returned
    config,              \* config object of the current idp_auth invocation
    stack,               \* suspended saml2_authenticate callers (innermost last)
    webfinger,           \* get_auth_properties: shape of the webfinger reply
    message,             \* api_error_code_parser: the message it built
    html,                \* the document given to an extraction routine
    extracted,           \* what the extraction routine returned
    ret,                 \* get_auth_properties: properties of the first link
    auth_properties,     \* idp_auth: result of get_auth_properties
    primary_auth,        \* user_authenticate: the /api/v1/authn response
    session_token,       \* user_authenticate / idp_auth local
    session_cookies,     \* idp_auth local
    pipeline,            \* what get_auth_pipeline answered in this invocation
    branch,              \* which branch this invocation of idp_auth took
    saml_request,        \* saml2_authenticate local
    saml_response,       \* saml2_authenticate local
    state_token,         \* send_saml_response local
    oauth,               \* the locals of the OAuth2 authorization-code flow
    jar,                 \* HTTP_client.session.cookies
    index,              \* mfa_challenge: value of mfa_index
    selected_mfa_option, \* mfa_challenge: mfa_options[index]
    mfa_challenge_url,   \* mfa_challenge: verify href of the selected option
    payload,             \* mfa_challenge: the challenge payload
    selected_factor,     \* mfa_challenge: reply to the challenge-initiation post
    mfa_verify,          \* mfa_provider_type: the verification response
    status,              \* push_approval local
    result,              \* push_approval local
    response,            \* push_approval local
    challenge_displayed, \* push_approval local
    env,                 \* the provider side: enrolled factors, polls it answers, repertoire
    sent,                \* the endpoints requested so far
    last,                \* the requests the latest step sent, in order
    polls,               \* posts made by the push polling loop
    sleeps,              \* time.sleep(1) calls made by the push polling loop
    waits,               \* waiting answers received by the push polling loop
    prompts,             \* interactive prompts shown (selection, code entry)
    notices,             \* number-challenge notifications printed
    masked,              \* times each value was registered for masking
    posted               \* (url, payload) pairs posted by the polling loop

frameVars == <<config, stack>>
authVars == <<webfinger, message, html, extracted, ret, auth_properties, primary_auth,
              session_token, session_cookies, pipeline, branch, saml_request, saml_response,
              state_token, oauth, jar>>
mfaVars == <<index, selected_mfa_option, mfa_challenge_url, payload, selected_factor, mfa_verify>>
pushVars == <<status, result, response, challenge_displayed>>
loopGhosts == <<polls, sleeps, waits, notices, posted>>
netVars == <<sent, last>>
vars == <<pc, outcome, retval, frameVars, authVars, mfaVars, pushVars, env, netVars,
          loopGhosts, prompts, masked>>

(***************************************************************************)
(* Strings as character sequences (for the substring match of mfa_index)   *)
(***************************************************************************)
Chars ==
    [s \in {"", "OKTA", "GOOGLE", "DUO", "push", "sms", "web", "token:software:totp",
            "totp", "zz", "a1", "b2", "c3", "d4", "e5"} |->
        CASE s = "" -> <<>>
          [] s = "OKTA" -> <<"O", "K", "T", "A">>
          [] s = "GOOGLE" -> <<"G", "O", "O", "G", "L", "E">>
          [] s = "DUO" -> <<"D", "U", "O">>
          [] s = "push" -> <<"p", "u", "s", "h">>
          [] s = "sms" -> <<"s", "m", "s">>
          [] s = "web" -> <<"w", "e", "b">>
          [] s = "token:software:totp" ->
                 <<"t", "o", "k", "e", "n", ":", "s", "o", "f", "t", "w", "a", "r", "e",
                   ":", "t", "o", "t", "p">>
          [] s = "totp" -> <<"t", "o", "t", "p">>
          [] s = "zz" -> <<"z", "z">>
          [] s = "a1" -> <<"a", "1">>
          [] s = "b2" -> <<"b", "2">>
          [] s = "c3" -> <<"c", "3">>
          [] s = "d4" -> <<"d", "4">>
          [] s = "e5" -> <<"e", "5">>]

\* Python's `s in t` for strings
Substring(s, t) ==
    \E i \in 0..(Len(t) - Len(s)) : SubSeq(t, i + 1, i + Len(s)) = s

(***************************************************************************)
(* JSON access helpers                                                     *)
(***************************************************************************)
\* a default equal to the value the loop variables start with
GetOrWaiting(v) ==
    CASE v = "absent" -> "WAITING"
      [] OTHER -> v

\* dict.get(key, "UNKNOWN")
GetOrUnknown(v) == IF v = "absent" THEN "UNKNOWN" ELSE v

\* user.add_sensitive_value_to_be_masked(value)
MaskCap == 3
Sensitive ==
    {"None", "tok", "tok2", "code", "authz", "req1", "req2", "req3", "req4", "resp1",
     "resp2", "resp3", "resp4"}
Mask(m, v) == [m EXCEPT ![v] = IF @ < MaskCap THEN @ + 1 ELSE @]

Req(ep, to) == [ep |-> ep, to |-> to]
\* a request together with the parameters or form data it carries
ReqWith(ep, to, body) == [ep |-> ep, to |-> to, body |-> body]
\* the step sends these requests, in this order
Requests(reqs) ==
    /\ sent' = sent \cup {reqs[i].ep : i \in 1..Len(reqs)}
    /\ last' = reqs

(***************************************************************************)
(* push_approval                                                           *)
(***************************************************************************)
EmptyResponse ==
    [status |-> "absent", factorResult |-> "absent", sessionToken |-> "absent",
     correctAnswer |-> "None"]

\* every answer the verify endpoint can give to a poll
AnyPollResponses ==
    [status : {"MFA_CHALLENGE", "SUCCESS", "absent"},
     factorResult : {"WAITING", "REJECTED", "TIMEOUT", "SUCCESS", "absent"},
     sessionToken : {"absent", "tok2"},
     correctAnswer : {"None", "", "42"}]

\* a provider on whose device nobody ever taps: waiting, then its own timeout
SlowPollResponses ==
    [status : {"MFA_CHALLENGE"},
     factorResult : {"WAITING", "TIMEOUT"},
     sessionToken : {"absent"},
     correctAnswer : {"None", "42"}]

\* the answers of a provider that follows the documented protocol
PlainPollResponses ==
    {[status |-> "MFA_CHALLENGE", factorResult |-> "WAITING", sessionToken |-> "absent",
      correctAnswer |-> a] : a \in {"None", "42"}}
    \cup
    {[status |-> "MFA_CHALLENGE", factorResult |-> r, sessionToken |-> "absent",
      correctAnswer |-> "None"] : r \in {"REJECTED", "TIMEOUT"}}
    \cup
    {[status |-> "SUCCESS", factorResult |-> "absent", sessionToken |-> t,
      correctAnswer |-> "None"] : t \in {"absent", "tok2"}}

PollResponses(server) ==
    CASE server = "slow" -> SlowPollResponses
      [] server \in {"plain", "local"} -> PlainPollResponses
      [] OTHER -> AnyPollResponses

\* a loop condition that looks at the status alone
PushWaitingOnStatus(st, res) == st = "MFA_CHALLENGE"

\* the loop condition of push_approval
PushWaiting(st, res) == st = "MFA_CHALLENGE" /\ res = "WAITING"

\* a success test that reads the factor result the API reference documents
PushSuccessByResult(st, resp) == resp.factorResult = "SUCCESS" /\ resp.sessionToken # "absent"

\* the success test after the loop
PushSuccess(st, resp) == st = "SUCCESS" /\ resp.sessionToken # "absent"

\* the failure chosen after the loop when the success test fails
PushFailure(res) ==
    CASE res = "REJECTED" -> "PushRejected"
      [] res = "TIMEOUT" -> "PushTimeout"
      [] OTHER -> "UnsupportedPushOutcome"

\* number of sleeps one iteration of the loop makes
SleepsPerPoll == 1

\* a poll that re-posts the payload without its state token
PollPayloadWithoutState(p) == [p EXCEPT !.stateToken = "None"]

\* the payload re-posted by an iteration of the loop
PollPayload(p) == p

\* a test that forgets the challenge was shown
ShowChallengeAgain(answer, displayed) == answer \notin {"None", ""}

\* `answer and not challenge_displayed`
ShowChallenge(answer, displayed) == answer \notin {"None", ""} /\ ~displayed

\* one iteration of the while loop: post, mask, read status and result,
\* show the number challenge, sleep
PushPoll ==
    /\ pc = "push_approval"
    /\ outcome = "running"
    /\ PushWaiting(status, result)
    /\ polls < env.budget
    /\ \E r \in PollResponses(env.server) :
          /\ response' = r
          /\ masked' = IF r.sessionToken # "absent" THEN Mask(masked, r.sessionToken)
                       ELSE masked
          /\ status' = GetOrUnknown(r.status)
          /\ result' = GetOrUnknown(r.factorResult)
          /\ challenge_displayed' =
                 (challenge_displayed \/ ShowChallenge(r.correctAnswer, challenge_displayed))
          /\ notices' = IF ShowChallenge(r.correctAnswer, challenge_displayed)
                        THEN notices + 1 ELSE notices
          /\ waits' = IF PushWaiting(GetOrUnknown(r.status), GetOrUnknown(r.factorResult))
                      THEN waits + 1 ELSE waits
    /\ polls' = polls + 1
    /\ sleeps' = sleeps + SleepsPerPoll
    /\ posted' = posted \cup {[url |-> mfa_challenge_url, payload |-> PollPayload(payload)]}
    /\ Requests(<<Req("verify", mfa_challenge_url)>>)
    /\ UNCHANGED <<pc, outcome, retval, frameVars, authVars, mfaVars, env, prompts>>

\* the code after the loop: return the response or end the process
PushExit ==
    /\ pc = "push_approval"
    /\ outcome = "running"
    /\ ~PushWaiting(status, result)
    /\ IF PushSuccess(status, response)
       THEN /\ mfa_verify' = response
            /\ pc' = "mfa_verified"
            /\ UNCHANGED outcome
       ELSE /\ outcome' = PushFailure(result)
            /\ pc' = "exit"
            /\ UNCHANGED mfa_verify
    /\ last' = <<>>
    /\ UNCHANGED <<retval, frameVars, authVars, index, selected_mfa_option,
                   mfa_challenge_url, payload, selected_factor, pushVars, env, sent,
                   loopGhosts, prompts, masked>>

(***************************************************************************)
(* mfa_index, mfa_challenge, mfa_provider_type, totp_approval              *)
(***************************************************************************)
Factor(p, t, i) == [provider |-> p, factorType |-> t, id |-> i]

\* the factors a user can have enrolled
Catalogue ==
    {Factor("OKTA", "push", "a1"),
     Factor("OKTA", "token:software:totp", "b2"),
     Factor("GOOGLE", "token:software:totp", "c3"),
     Factor("DUO", "web", "d4")}

NoFactor == Factor("None", "None", "None")

SeqsUpTo(S, n) == UNION {[1..k -> S] : k \in 1..n}

FactorLists == SeqsUpTo(Catalogue, MaxFactors)

\* f"{d['provider']}_{d['factorType']}_{d['id']}"
Label(d) == Chars[d.provider] \o <<"_">> \o Chars[d.factorType] \o <<"_">> \o Chars[d.id]

\* available_mfas of mfa_challenge
AvailableMfas(mfa_options) == [i \in 1..Len(mfa_options) |-> Label(mfa_options[i])]

\* selected_mfa_option["_links"]["verify"]["href"]
VerifyHref(d) == d.id

\* `if preset_mfa:` of mfa_index
Truthy(s) == s \notin {"None", ""}

\* indices computed with str.startswith instead of `in`
IndicesByPrefix(preset_mfa, available_mfas) ==
    IF preset_mfa \notin {"None", ""}
    THEN {i \in 1..Len(available_mfas) :
            /\ Len(Chars[preset_mfa]) <= Len(available_mfas[i])
            /\ SubSeq(available_mfas[i], 1, Len(Chars[preset_mfa])) = Chars[preset_mfa]}
    ELSE {}

\* indices of mfa_index (positions are 1-based here, 0-based in Python)
Indices(preset_mfa, available_mfas) ==
    IF Truthy(preset_mfa)
    THEN {i \in 1..Len(available_mfas) : Substring(Chars[preset_mfa], available_mfas[i])}
    ELSE {}

\* user.select_preferred_mfa_index(mfa_options): the interactive selection
SelectPreferredMfaIndex(mfa_options) == 1..Len(mfa_options)

\* what mfa_index does with the matches: "prompt", "exit" or the index
MfaIndexDecision(indices) ==
    CASE Cardinality(indices) = 0 -> "prompt"
      [] Cardinality(indices) = 1 -> "one"
      [] OTHER -> "exit"

ChallengePayload(stateToken, d) ==
    [kind |-> "challenge", stateToken |-> stateToken, factorType |-> d.factorType,
     provider |-> d.provider, passCode |-> "None"]

PassCodePayload(stateToken, code) ==
    [kind |-> "passcode", stateToken |-> stateToken, factorType |-> "None",
     provider |-> "None", passCode |-> code]

DuoPayload ==
    [kind |-> "duo", stateToken |-> "None", factorType |-> "None",
     provider |-> "None", passCode |-> "None"]

NoPayload ==
    [kind |-> "None", stateToken |-> "None", factorType |-> "None",
     provider |-> "None", passCode |-> "None"]

\* replies to the challenge-initiation post: _embedded.factor.{provider, factorType}
SelectedFactors ==
    [provider : {"DUO", "OKTA", "GOOGLE", "OTHER"},
     factorType : {"push", "token:software:totp", "sms", "web", "None"}]

\* the replies of a server of the given repertoire when option d is challenged
SelectedFactorsFor(server, d) ==
    IF server = "plain"
    THEN {[provider |-> d.provider, factorType |-> d.factorType],
          [provider |-> "OTHER", factorType |-> "None"]}
    ELSE SelectedFactors

NoSelectedFactor == [provider |-> "None", factorType |-> "None"]

\* replies to a DUO or one-time-code verification post
VerifyResponses ==
    [status : {"SUCCESS"}, factorResult : {"absent"}, sessionToken : {"absent", "tok2"},
     correctAnswer : {"None"}]

\* a dispatch that sends every push factor to the push engine
MfaDispatchAnyPush(mfa_provider, factor_type) ==
    CASE mfa_provider = "DUO" -> "duo"
      [] factor_type = "push" -> "push"
      [] mfa_provider \in {"OKTA", "GOOGLE"} /\ factor_type \in {"token:software:totp", "sms"}
             -> "totp"
      [] OTHER -> "exit"

\* the branch mfa_provider_type takes
MfaDispatch(mfa_provider, factor_type) ==
    CASE mfa_provider = "DUO" -> "duo"
      [] mfa_provider = "OKTA" /\ factor_type = "push" -> "push"
      [] mfa_provider \in {"OKTA", "GOOGLE"} /\ factor_type \in {"token:software:totp", "sms"}
             -> "totp"
      [] OTHER -> "exit"

\* mfa_challenge up to the payload: read the factor list, run mfa_index
MfaSelect ==
    /\ pc = "mfa_challenge"
    /\ outcome = "running"
    /\ IF ~primary_auth.hasFactors
       THEN /\ outcome' = "MalformedFactorList"
            /\ pc' = "exit"
            /\ UNCHANGED <<index, selected_mfa_option, mfa_challenge_url, payload, prompts>>
       ELSE LET mfa_options == primary_auth.factors
                indices == Indices(config.mfa, AvailableMfas(mfa_options))
                decision == MfaIndexDecision(indices)
            IN IF decision = "exit"
               THEN /\ outcome' = "AmbiguousMfaSelector"
                    /\ pc' = "exit"
                    /\ UNCHANGED <<index, selected_mfa_option, mfa_challenge_url, payload,
                                   prompts>>
               ELSE /\ \E i \in (IF decision = "prompt"
                                 THEN SelectPreferredMfaIndex(mfa_options) ELSE indices) :
                          /\ index' = i
                          /\ selected_mfa_option' = mfa_options[i]
                          /\ mfa_challenge_url' = VerifyHref(mfa_options[i])
                          /\ payload' = ChallengePayload(primary_auth.stateToken,
                                                         mfa_options[i])
                    /\ prompts' = IF decision = "prompt"
                                  THEN [prompts EXCEPT !.select = @ + 1] ELSE prompts
                    /\ pc' = "mfa_post"
                    /\ UNCHANGED outcome
    /\ last' = <<>>
    /\ UNCHANGED <<retval, frameVars, authVars, selected_factor, mfa_verify, pushVars, env,
                   sent, loopGhosts, masked>>

\* mfa_challenge: the challenge-initiation post to the verify URL
MfaPost ==
    /\ pc = "mfa_post"
    /\ outcome = "running"
    /\ \E f \in SelectedFactorsFor(env.server, selected_mfa_option) : selected_factor' = f
    /\ Requests(<<Req("verify", mfa_challenge_url)>>)
    /\ posted' = posted \cup {[url |-> mfa_challenge_url, payload |-> payload]}
    /\ pc' = "mfa_provider_type"
    /\ UNCHANGED <<outcome, retval, frameVars, authVars, index, selected_mfa_option,
                   mfa_challenge_url, payload, mfa_verify, pushVars, env, polls, sleeps,
                   waits, notices, prompts, masked>>

\* mfa_provider_type, provider DUO: the DUO collaborator, then a post to the verify URL
DuoVerify ==
    /\ pc = "mfa_provider_type"
    /\ outcome = "running"
    /\ MfaDispatch(selected_factor.provider, selected_factor.factorType) = "duo"
    /\ \E v \in VerifyResponses : mfa_verify' = v
    /\ Requests(<<Req("duo", "duo"), Req("verify", mfa_challenge_url)>>)
    /\ posted' = posted \cup {[url |-> mfa_challenge_url, payload |-> DuoPayload]}
    /\ pc' = "mfa_verified"
    /\ UNCHANGED <<outcome, retval, frameVars, authVars, index, selected_mfa_option,
                   mfa_challenge_url, payload, selected_factor, pushVars, env, polls,
                   sleeps, waits, notices, prompts, masked>>

\* mfa_provider_type, provider OKTA with factor type push: enter push_approval
PushStart ==
    /\ pc = "mfa_provider_type"
    /\ outcome = "running"
    /\ MfaDispatch(selected_factor.provider, selected_factor.factorType) = "push"
    /\ status' = "MFA_CHALLENGE"
    /\ result' = "WAITING"
    /\ response' = EmptyResponse
    /\ challenge_displayed' = FALSE
    /\ pc' = "push_approval"
    /\ last' = <<>>
    /\ UNCHANGED <<outcome, retval, frameVars, authVars, mfaVars, env, sent, loopGhosts,
                   prompts, masked>>

\* mfa_provider_type, one-time-code factors: the whole of totp_approval
TotpApproval ==
    /\ pc = "mfa_provider_type"
    /\ outcome = "running"
    /\ MfaDispatch(selected_factor.provider, selected_factor.factorType) = "totp"
    /\ \E code \in {"code"}, v \in VerifyResponses :
          LET ask == config.mfa_response = "None"
              passCode == IF ask THEN code ELSE config.mfa_response
              m1 == IF ask THEN Mask(masked, passCode) ELSE masked
          IN /\ config' = [config EXCEPT !.mfa_response = passCode]
             /\ prompts' = IF ask THEN [prompts EXCEPT !.code = @ + 1] ELSE prompts
             /\ mfa_verify' = v
             /\ masked' = IF v.sessionToken # "absent" THEN Mask(m1, v.sessionToken) ELSE m1
             /\ posted' = posted \cup
                    {[url |-> mfa_challenge_url,
                      payload |-> PassCodePayload(primary_auth.stateToken, passCode)]}
    /\ Requests(<<Req("verify", mfa_challenge_url)>>)
    /\ pc' = "mfa_verified"
    /\ UNCHANGED <<outcome, retval, stack, authVars, index, selected_mfa_option,
                   mfa_challenge_url, payload, selected_factor, pushVars, env, polls,
                   sleeps, waits, notices>>

\* mfa_provider_type, every other combination: sys.exit(1)
UnsupportedProvider ==
    /\ pc = "mfa_provider_type"
    /\ outcome = "running"
    /\ MfaDispatch(selected_factor.provider, selected_factor.factorType) = "exit"
    /\ outcome' = "UnsupportedMfaProvider"
    /\ pc' = "exit"
    /\ last' = <<>>
    /\ UNCHANGED <<retval, frameVars, authVars, mfaVars, pushVars, env, sent, loopGhosts,
                   prompts, masked>>

\* how mfa_provider_type ends when mfa_verify has no sessionToken: the
\* message of logger.error reads primary_auth['factorType'], a key the
\* primary-authentication reply does not have, and the return statement
\* reads mfa_verify["sessionToken"]; nothing ends the process in between
MissingSessionTokenEnd == "KeyError"

\* the end of mfa_provider_type, mfa_challenge and get_session_token:
\* mfa_verify["sessionToken"] becomes the session token and is masked
MfaReturn ==
    /\ pc = "mfa_verified"
    /\ outcome = "running"
    /\ IF mfa_verify.sessionToken = "absent"
       THEN /\ outcome' = MissingSessionTokenEnd
            /\ pc' = "exit"
            /\ UNCHANGED <<session_token, masked>>
       ELSE /\ session_token' = mfa_verify.sessionToken
            /\ masked' = Mask(masked, mfa_verify.sessionToken)
            /\ pc' = "token_loop"
            /\ UNCHANGED outcome
    /\ last' = <<>>
    /\ UNCHANGED <<retval, frameVars, webfinger, message, html, extracted, ret, auth_properties, primary_auth, session_cookies,
                   pipeline, branch, saml_request, saml_response, state_token, oauth, jar, mfaVars,
                   pushVars, env, sent, loopGhosts, prompts>>

(***************************************************************************)
(* user_authenticate, get_session_token                                    *)
(***************************************************************************)
NoPrimaryAuth ==
    [errorCode |-> "absent", status |-> "absent", sessionToken |-> "absent",
     hasFactors |-> FALSE, factors |-> <<>>, stateToken |-> "None"]

\* the values of errorCode: the four of the table, an unknown one, an empty
\* string and null
ErrorCodes ==
    {"E0000004", "E0000047", "PASSWORD_EXPIRED", "LOCKED_OUT", "E0000999", "", "None"}

\* _status_dict
StatusDict ==
    [c \in {"E0000004", "E0000047", "PASSWORD_EXPIRED", "LOCKED_OUT"} |->
        CASE c = "E0000004" -> "Authentication failed"
          [] c = "E0000047" -> "API call exceeded rate limit due to too many requests"
          [] c = "PASSWORD_EXPIRED" -> "Your password has expired"
          [] c = "LOCKED_OUT" -> "Your account is locked out"]

\* a parser that answers every code with the fallback
ApiErrorCodeParserFallback(code) ==
    <<"Okta auth failed: ", code, ". Please verify your settings and try again.">>

\* api_error_code_parser: the parts of the f-string it returns
ApiErrorCodeParser(code) ==
    IF Truthy(code) /\ code \in DOMAIN StatusDict
    THEN <<"Okta auth failed: ", StatusDict[code]>>
    ELSE <<"Okta auth failed: ", code, ". Please verify your settings and try again.">>

\* the replies of /api/v1/authn a whole login is studied with
PlainPrimaryAuthResponses(enrolled) ==
    {[errorCode |-> "E0000004", status |-> "absent", sessionToken |-> "absent",
      hasFactors |-> FALSE, factors |-> <<>>, stateToken |-> "None"],
     [errorCode |-> "absent", status |-> "SUCCESS", sessionToken |-> "tok",
      hasFactors |-> FALSE, factors |-> <<>>, stateToken |-> "None"],
     [errorCode |-> "absent", status |-> "SUCCESS", sessionToken |-> "absent",
      hasFactors |-> FALSE, factors |-> <<>>, stateToken |-> "None"],
     [errorCode |-> "absent", status |-> "MFA_REQUIRED", sessionToken |-> "absent",
      hasFactors |-> TRUE, factors |-> enrolled, stateToken |-> "st"]}

\* the replies of /api/v1/authn for a user with the given enrolled factors
AnyPrimaryAuthResponses(enrolled) ==
    {[errorCode |-> e, status |-> s, sessionToken |-> t, hasFactors |-> FALSE,
      factors |-> <<>>, stateToken |-> "None"] :
        e \in ErrorCodes, s \in {"absent", "SUCCESS"}, t \in {"absent", "tok"}}
    \cup
    {[errorCode |-> e, status |-> "MFA_REQUIRED", sessionToken |-> "absent",
      hasFactors |-> TRUE, factors |-> enrolled, stateToken |-> "st"] : e \in ErrorCodes}
    \cup
    {[errorCode |-> "absent", status |-> s, sessionToken |-> t, hasFactors |-> FALSE,
      factors |-> <<>>, stateToken |-> "None"] :
        s \in {"SUCCESS", "PASSWORD_EXPIRED", "absent"}, t \in {"absent", "None", "tok"}}
    \cup
    {[errorCode |-> "absent", status |-> "MFA_REQUIRED", sessionToken |-> t,
      hasFactors |-> h, factors |-> IF h THEN enrolled ELSE <<>>,
      stateToken |-> "st"] : t \in {"absent", "tok"}, h \in BOOLEAN}

PrimaryAuthResponses(server, enrolled) ==
    IF server = "plain" THEN PlainPrimaryAuthResponses(enrolled)
    ELSE AnyPrimaryAuthResponses(enrolled)

\* a test of the error code's truthiness instead of its presence
HasTruthyErrorCode(pa) == pa.errorCode \notin {"absent", ""}

\* `if "errorCode" in primary_auth` of user_authenticate
HasErrorCode(pa) == pa.errorCode # "absent"

\* the branch get_session_token takes
SessionTokenBranch(pa) ==
    CASE pa.status = "SUCCESS" /\ pa.sessionToken # "absent" -> "token"
      [] pa.status = "MFA_REQUIRED" -> "mfa"
      [] OTHER -> "exit"

\* user_authenticate: post the credentials, fail on an error code
PrimaryAuth ==
    /\ pc = "user_authenticate"
    /\ outcome = "running"
    /\ \E r \in PrimaryAuthResponses(env.server, env.enrolled) :
          /\ primary_auth' = r
          /\ IF HasErrorCode(r)
             THEN /\ message' = ApiErrorCodeParser(r.errorCode)
                  /\ outcome' = "PrimaryAuthFailed"
                  /\ pc' = "exit"
             ELSE /\ pc' = "token_loop"
                  /\ UNCHANGED <<outcome, message>>
    /\ session_token' = "None"
    /\ Requests(<<Req("authn", config.org)>>)
    /\ UNCHANGED <<retval, frameVars, webfinger, html, extracted, ret, auth_properties, session_cookies, pipeline, branch,
                   saml_request, saml_response, state_token, oauth, jar, mfaVars, pushVars, env,
                   loopGhosts, prompts, masked>>

\* one iteration of `while session_token is None`: get_session_token up to
\* its branch; the token branch also masks and returns
GetSessionToken ==
    /\ pc = "token_loop"
    /\ outcome = "running"
    /\ session_token = "None"
    /\ LET b == SessionTokenBranch(primary_auth)
       IN CASE b = "token" ->
                 /\ session_token' = primary_auth.sessionToken
                 /\ masked' = Mask(masked, primary_auth.sessionToken)
                 /\ UNCHANGED <<pc, outcome>>
            [] b = "mfa" ->
                 /\ pc' = "mfa_challenge"
                 /\ UNCHANGED <<session_token, masked, outcome>>
            [] OTHER ->
                 /\ outcome' = "UnknownAuthStatus"
                 /\ pc' = "exit"
                 /\ UNCHANGED <<session_token, masked>>
    /\ last' = <<>>
    /\ UNCHANGED <<retval, frameVars, webfinger, message, html, extracted, ret, auth_properties, primary_auth, session_cookies,
                   pipeline, branch, saml_request, saml_response, state_token, oauth, jar, mfaVars,
                   pushVars, env, sent, loopGhosts, prompts>>

\* the loop of user_authenticate ends: return the token to idp_auth
UserAuthenticateReturn ==
    /\ pc = "token_loop"
    /\ outcome = "running"
    /\ session_token # "None"
    /\ pc' = "authenticated"
    /\ primary_auth' = NoPrimaryAuth
    /\ index' = 0
    /\ selected_mfa_option' = NoFactor
    /\ mfa_challenge_url' = "None"
    /\ payload' = NoPayload
    /\ selected_factor' = NoSelectedFactor
    /\ mfa_verify' = EmptyResponse
    /\ status' = "None"
    /\ result' = "None"
    /\ response' = EmptyResponse
    /\ challenge_displayed' = FALSE
    /\ polls' = 0
    /\ sleeps' = 0
    /\ waits' = 0
    /\ notices' = 0
    /\ posted' = {}
    /\ last' = <<>>
    /\ UNCHANGED <<outcome, retval, frameVars, webfinger, message, html, extracted, ret, auth_properties, session_token,
                   session_cookies, pipeline, branch, saml_request, saml_response, state_token, oauth,
                   jar, env, sent, prompts, masked>>

(***************************************************************************)
(* idp_auth, oie_enabled, get_auth_pipeline, get_auth_properties           *)
(***************************************************************************)
Cookies(kind, org, val) == [kind |-> kind, org |-> org, val |-> val]
NoCookies == Cookies("None", "None", "None")

NoAuthProperties == [type |-> "unset", metadata |-> "None", id |-> "None"]

\* the values of okta:idp:type a webfinger reply can carry ("None": no such property)
IdpTypes == {"OKTA", "SAML2", "OTHER", "None"}

\* the okta:idp:type of the first link: a type, null, or no such property
LinkTypes == (IdpTypes \ {"None"}) \cup {"null", "absent"}

\* the properties of the first webfinger link
LinkProperties(t, org) ==
    [type |-> t, metadata |-> org, id |-> "idp"]
NoLinkProperties == [type |-> "None", metadata |-> "None", id |-> "None"]

\* ret.get(key, None) on the decoded JSON
GetOrNone(v) == IF v \in {"absent", "null"} THEN "None" ELSE v

\* get_auth_properties: the dictionary it returns
AuthProperties(r) ==
    [type |-> GetOrNone(r.type), metadata |-> GetOrNone(r.metadata), id |-> GetOrNone(r.id)]

\* idp_auth: `"type" not in auth_properties`
TypeMissing(ap) == ap.type = "absent"

\* a test that takes an org without an identity type for a local one
LocalOrUntyped(ap) == ap.type \in {"OKTA", "None"}

\* local_authentication_enabled
LocalAuthenticationEnabled(ap) == ap.type = "OKTA"

\* is_saml2_authentication
IsSaml2Authentication(ap) == ap.type = "SAML2"

\* the branch of idp_auth: if / elif / else
IdpBranch(ap) ==
    CASE LocalAuthenticationEnabled(ap) -> "local"
      [] IsSaml2Authentication(ap) -> "saml2"
      [] OTHER -> "exit"

\* user.request_cookies(org, session_token): the session cookies for the token
RequestCookies(org, token) == Cookies("sid", org, token)

\* get_auth_properties: how response.json()["links"][0]["properties"] ends
\* for a reply that is not JSON, JSON without "links", with an empty "links"
\* list, with a first link without "properties", or with them. ValueError and
\* KeyError are caught and end the process; the IndexError of an empty list
\* is not caught
LinkLookupEnd(shape) ==
    CASE shape = "not_json" -> "DiscoveryParseError"
      [] shape = "no_links" -> "DiscoveryParseError"
      [] shape = "empty_links" -> "IndexError"
      [] shape = "no_properties" -> "DiscoveryParseError"
      [] OTHER -> "None"

\* idp_auth: get_auth_properties, the webfinger lookup
GetAuthProperties ==
    /\ pc = "idp_auth"
    /\ outcome = "running"
    /\ Requests(<<Req("webfinger", config.org)>>)
    /\ session_cookies' = NoCookies
    /\ session_token' = "None"
    /\ branch' = "None"
    /\ pipeline' = "None"
    /\ \E shape \in {"not_json", "no_links", "empty_links", "no_properties", "properties"} :
          /\ webfinger' = shape
          /\ IF LinkLookupEnd(shape) # "None"
             THEN /\ outcome' = LinkLookupEnd(shape)
                  /\ pc' = "exit"
                  /\ UNCHANGED <<ret, auth_properties>>
             ELSE /\ \E t \in LinkTypes :
                        /\ t = "SAML2" => Len(stack) < MaxDepth
                        /\ ret' = LinkProperties(t, config.org)
                        /\ auth_properties' = AuthProperties(LinkProperties(t, config.org))
                  /\ pc' = "idp_branch"
                  /\ UNCHANGED outcome
    /\ UNCHANGED <<retval, frameVars, message, html, extracted, primary_auth, saml_request, saml_response, state_token, oauth, jar,
                   mfaVars, pushVars, env, loopGhosts, prompts, masked>>

\* idp_auth: the branch on the identity type
IdpAuthBranch ==
    /\ pc = "idp_branch"
    /\ outcome = "running"
    /\ LET b == IdpBranch(auth_properties)
       IN CASE TypeMissing(auth_properties) ->
                 /\ outcome' = "UnknownIdentityType"
                 /\ pc' = "exit"
                 /\ UNCHANGED branch
            [] b = "local" ->
                 /\ pc' = "user_authenticate"
                 /\ branch' = "local"
                 /\ UNCHANGED outcome
            [] b = "saml2" ->
                 /\ pc' = "saml2_authenticate"
                 /\ branch' = "saml2"
                 /\ UNCHANGED outcome
            [] OTHER ->
                 /\ outcome' = "UnsupportedIdpDiscovery"
                 /\ pc' = "exit"
                 /\ UNCHANGED branch
    /\ last' = <<>>
    /\ UNCHANGED <<retval, frameVars, webfinger, message, html, extracted, ret, auth_properties, primary_auth, session_token,
                   session_cookies, pipeline, saml_request, saml_response, state_token, oauth, jar,
                   mfaVars, pushVars, env, sent, loopGhosts, prompts, masked>>

\* idp_auth after user_authenticate: request the session cookies, keep them
LocalCookies ==
    /\ pc = "authenticated"
    /\ outcome = "running"
    /\ session_cookies' = RequestCookies(config.org, session_token)
    /\ jar' = RequestCookies(config.org, session_token)
    /\ Requests(<<Req("sessions", config.org)>>)
    /\ pc' = "oie_enabled"
    /\ UNCHANGED <<outcome, retval, frameVars, webfinger, message, html, extracted, ret, auth_properties, primary_auth, session_token,
                   pipeline, branch, saml_request, saml_response, state_token, oauth, mfaVars, pushVars,
                   env, loopGhosts, prompts, masked>>

\* the replies of /.well-known/okta-organization
PipelineReplies == {"idx", "v1", "OTHER", "malformed"}

PipelineRepliesFor(server) ==
    IF server = "plain" THEN {"idx", "v1", "OTHER"} ELSE PipelineReplies

\* get_auth_pipeline: the failure for a reply, "None" when it is accepted
PipelineFailure(p) ==
    CASE p = "malformed" -> "MalformedResponse"
      [] p \notin {"idx", "v1"} -> "UnsupportedPipeline"
      [] OTHER -> "None"

\* a test that takes every known pipeline for the identity engine
OieEnabledForKnown(p) == p \in {"idx", "v1"}

\* oie_enabled
OieEnabledFor(p) == p = "idx"

\* idp_auth: `if oie_enabled(config.okta["org"])`
OieEnabled ==
    /\ pc = "oie_enabled"
    /\ outcome = "running"
    /\ Requests(<<Req("okta-organization", config.org)>>)
    /\ \E p \in PipelineRepliesFor(env.server) :
          IF PipelineFailure(p) # "None"
          THEN /\ outcome' = PipelineFailure(p)
               /\ pc' = "exit"
               /\ UNCHANGED pipeline
          ELSE /\ pipeline' = p
               /\ pc' = IF OieEnabledFor(p) THEN "oauth2_authorize" ELSE "idp_return"
               /\ UNCHANGED outcome
    /\ UNCHANGED <<retval, frameVars, webfinger, message, html, extracted, ret, auth_properties, primary_auth, session_token,
                   session_cookies, branch, saml_request, saml_response, state_token, oauth, jar,
                   mfaVars, pushVars, env, loopGhosts, prompts, masked>>

(***************************************************************************)
(* saml2_authenticate, get_saml_request, send_saml_request,                *)
(* send_saml_response                                                      *)
(***************************************************************************)
\* no discovery document fetched, no redirect received yet
NoDiscoveryDoc ==
    [authorization_endpoint |-> "None", token_endpoint |-> "None",
     grant_types_supported |-> "None", response_types_supported |-> "None",
     scopes_supported |-> "None"]
NoCallback == [error |-> "None", error_description |-> "None", code |-> "None", state |-> "None"]

\* no flow data built yet
NoFlowData ==
    [client_id |-> "None", redirect_uri |-> <<>>, response_type |-> "None",
     scope |-> "None", state |-> "None", authz_endpoint_url |-> "None",
     token_endpoint_url |-> "None", grant_type |-> "None", code_verifier |-> <<>>,
     code_challenge |-> <<>>, code_challenge_method |-> "None"]

NoOauth ==
    [oauth2_config |-> NoDiscoveryDoc, authz_code_flow_data |-> NoFlowData,
     callback_url |-> NoCallback, authorize_code |-> "None", authz_token |-> "None"]

NoSamlRequest ==
    [base_url |-> "None", post_url |-> "None", relay_state |-> "None", request |-> "None"]
NoSamlResponse == [response |-> "None", relay_state |-> "None", post_url |-> "None"]

\* form actions of the SSO pages: the n-th identity provider of a chain
PostUrlAt ==
    <<"https://idp1/sso/saml", "https://idp2/sso/saml", "https://idp3/sso/saml",
      "https://idp4/sso/saml">>

\* the SAMLRequest the relying party at chaining depth n - 1 puts in its form
RequestBlobAt == <<"req1", "req2", "req3", "req4">>

\* the SAMLResponse the n-th identity provider of a chain answers with
ResponseBlobAt == <<"resp1", "resp2", "resp3", "resp4">>

\* the form actions a relying party at the given chaining depth can serve
PostUrlsFor(server, depth) ==
    IF server = "plain" THEN {PostUrlAt[depth + 1]}
    ELSE {PostUrlAt[i] : i \in 1..(depth + 1)}

\* user.get_base_url(url): the origin of a URL
GetBaseUrl(url) ==
    CASE url = "https://idp1/sso/saml" -> "https://idp1"
      [] url = "https://idp2/sso/saml" -> "https://idp2"
      [] url = "https://idp3/sso/saml" -> "https://idp3"
      [] url = "https://idp4/sso/saml" -> "https://idp4"
      [] url = "https://sp/sso/saml2" -> "https://sp"
      [] OTHER -> url

\* the SAMLRequest / SAMLResponse values a form can carry ("None": no such input)
SamlBlobsFor(server, blob) == IF server = "plain" THEN {blob} ELSE {"None", blob}

\* the org hard-coded in send_saml_response
MyOrg == "https://newscorpdev2.oktapreview.com"

\* a derived config that keeps pointing at the post URL of the form
Saml2ConfigForPostUrl(cfg, sr) == [cfg EXCEPT !.org = sr.post_url]

\* saml2_config of saml2_authenticate: the copy, pointed at the IdP origin
Saml2Config(cfg, sr) == [cfg EXCEPT !.org = sr.base_url]

\* a derived config that is the caller's object itself, not a copy of it
CallerConfigAliased(own, derived) == derived

\* the caller's config while and after the derived config is used: deepcopy
\* gave the callee an object of its own, so the caller's is as it was
CallerConfig(own, derived) == own

\* a query that sends the relay state in place of the SAML request
SamlRequestPayloadRelayOnly(sr) ==
    [relayState |-> sr.relay_state, SAMLRequest |-> sr.relay_state]

\* payload of send_saml_request
SamlRequestPayload(sr) == [relayState |-> sr.relay_state, SAMLRequest |-> sr.request]

\* payload of send_saml_response
SamlResponsePayload(sp) == [SAMLResponse |-> sp.response, RelayState |-> sp.relay_state]

\* what `var stateToken = '...'` can hold in the relying party's reply
\* ("None": no such script)
ScriptTokens == {"None", "", "stt", "st\\x2Dt"}

\* codecs.decode(encoded_token, "unicode-escape")
DecodeUnicodeEscape(t) == IF t = "st\\x2Dt" THEN "st-t" ELSE t

\* extract_state_token
ExtractStateToken(t) == IF t = "None" THEN "None" ELSE DecodeUnicodeEscape(t)

\* a test for a script that is there, whatever it holds
StateTokenIsNotNone(t) == t # "None"

\* `if state_token:` of send_saml_response
StateTokenPresent(t) == t \notin {"None", ""}

\* saml2_authenticate up to the recursive call: get_saml_request, deepcopy,
\* idp_auth(saml2_config)
Saml2Begin ==
    /\ pc = "saml2_authenticate"
    /\ outcome = "running"
    /\ Len(stack) < MaxDepth
    /\ Requests(<<Req("sso_idps", GetBaseUrl(auth_properties.metadata))>>)
    /\ \E u \in PostUrlsFor(env.server, Len(stack)), rs \in {"rs"},
          rq \in SamlBlobsFor(env.server, RequestBlobAt[Len(stack) + 1]) :
          LET sr == [base_url |-> GetBaseUrl(u), post_url |-> u, relay_state |-> rs,
                     request |-> rq]
          IN /\ saml_request' = sr
             /\ masked' = Mask(masked, rq)
             /\ stack' = Append(stack, [config |-> CallerConfig(config, Saml2Config(config, sr)),
                                        saml_request |-> sr,
                                        branch |-> branch])
             /\ config' = Saml2Config(config, sr)
    /\ pc' = "idp_auth"
    /\ UNCHANGED <<outcome, retval, webfinger, message, html, extracted, ret, auth_properties, primary_auth, session_token,
                   session_cookies, pipeline, branch, saml_response, state_token, oauth,
                   jar, mfaVars, pushVars, env, loopGhosts, prompts>>

\* `return session_cookies` of idp_auth: to the caller of login, or back into
\* the saml2_authenticate that called it
IdpAuthReturn ==
    /\ pc = "idp_return"
    /\ outcome = "running"
    /\ IF stack = <<>>
       THEN /\ outcome' = "returned"
            /\ retval' = session_cookies
            /\ pc' = "done"
            /\ UNCHANGED <<frameVars, saml_request, branch, pipeline, oauth>>
       ELSE LET frame == stack[Len(stack)]
            IN /\ config' = CallerConfig(frame.config, config)
               /\ saml_request' = frame.saml_request
               /\ branch' = frame.branch
               /\ stack' = SubSeq(stack, 1, Len(stack) - 1)
               /\ pipeline' = "None"
               /\ oauth' = NoOauth
               /\ pc' = "send_saml_request"
               /\ UNCHANGED <<outcome, retval>>
    /\ last' = <<>>
    /\ UNCHANGED <<webfinger, message, html, extracted, ret, auth_properties, primary_auth, session_token, session_cookies,
                   saml_response, state_token, jar, mfaVars, pushVars, env, sent,
                   loopGhosts, prompts, masked>>

\* send_saml_request(saml_request, session_cookies)
SendSamlRequest ==
    /\ pc = "send_saml_request"
    /\ outcome = "running"
    /\ jar' = session_cookies
    /\ Requests(<<ReqWith("idp_sso", saml_request.post_url,
                          SamlRequestPayload(saml_request))>>)
    /\ \E rp \in SamlBlobsFor(env.server, ResponseBlobAt[Len(stack) + 1]), rs \in {"rs2"} :
          /\ saml_response' = [response |-> rp, relay_state |-> rs,
                               post_url |-> "https://sp/sso/saml2"]
          /\ masked' = Mask(masked, rp)
    /\ pc' = "send_saml_response"
    /\ UNCHANGED <<outcome, retval, frameVars, webfinger, message, html, extracted, ret, auth_properties, primary_auth, session_token,
                   session_cookies, pipeline, branch, saml_request, state_token, oauth,
                   mfaVars, pushVars, env, loopGhosts, prompts>>

\* send_saml_response(config, saml_response), whose result becomes the
\* session cookies of the calling idp_auth
SendSamlResponse ==
    /\ pc = "send_saml_response"
    /\ outcome = "running"
    /\ \E t \in ScriptTokens :
          /\ state_token' = ExtractStateToken(t)
          /\ IF StateTokenPresent(ExtractStateToken(t))
             THEN /\ Requests(<<ReqWith("sp_acs", saml_response.post_url,
                                        SamlResponsePayload(saml_response)),
                                ReqWith("token_redirect", MyOrg,
                                        [stateToken |-> ExtractStateToken(t)])>>)
                  /\ session_cookies' = Cookies("redirect", MyOrg, ExtractStateToken(t))
             ELSE /\ Requests(<<ReqWith("sp_acs", saml_response.post_url,
                                        SamlResponsePayload(saml_response))>>)
                  /\ session_cookies' =
                         Cookies("acs", GetBaseUrl(saml_response.post_url),
                                 saml_response.response)
    /\ pc' = "oie_enabled"
    /\ UNCHANGED <<outcome, retval, frameVars, webfinger, message, html, extracted, ret, auth_properties, primary_auth, session_token,
                   pipeline, branch, saml_request, saml_response, oauth, jar, mfaVars,
                   pushVars, env, loopGhosts, prompts, masked>>

(***************************************************************************)
(* oauth2_authorize, get_oauth2_configuration, authorization_code_flow     *)
(***************************************************************************)
\* the documents /.well-known/oauth-authorization-server can serve
DiscoveryDocs ==
    [authorization_endpoint : {"absent", "authorize_url"},
     token_endpoint : {"absent", "token_url"},
     grant_types_supported : {"absent", "implicit", "authorization_code"},
     response_types_supported : {"absent", "token", "code"},
     scopes_supported : {"absent", "openid"}]

ValidDoc ==
    [authorization_endpoint |-> "authorize_url", token_endpoint |-> "token_url",
     grant_types_supported |-> "authorization_code", response_types_supported |-> "code",
     scopes_supported |-> "openid"]

DiscoveryDocsFor(server) ==
    IF server = "plain"
    THEN {ValidDoc, [ValidDoc EXCEPT !.token_endpoint = "absent"],
          [ValidDoc EXCEPT !.grant_types_supported = "implicit"]}
    ELSE DiscoveryDocs

\* a validation that does not look for scopes_supported
ValidateWithoutScopes(doc) ==
    CASE \/ doc.authorization_endpoint = "absent"
         \/ doc.token_endpoint = "absent"
         \/ doc.grant_types_supported = "absent"
         \/ doc.response_types_supported = "absent" -> "InvalidOAuth2Config"
      [] doc.grant_types_supported # "authorization_code" -> "UnsupportedGrantType"
      [] doc.response_types_supported # "code" -> "UnsupportedGrantType"
      [] OTHER -> "None"

\* validate_oauth2_configuration: the failure, "None" when the document passes
ValidateOauth2Configuration(doc) ==
    CASE \/ doc.authorization_endpoint = "absent"
         \/ doc.token_endpoint = "absent"
         \/ doc.grant_types_supported = "absent"
         \/ doc.response_types_supported = "absent"
         \/ doc.scopes_supported = "absent" -> "InvalidOAuth2Config"
      [] doc.grant_types_supported # "authorization_code" -> "UnsupportedGrantType"
      [] doc.response_types_supported # "code" -> "UnsupportedGrantType"
      [] OTHER -> "None"

\* authorization_code_enabled
AuthorizationCodeEnabled(doc) == doc.grant_types_supported = "authorization_code"

\* get_client_id
GetClientId(cfg) ==
    IF cfg.oauth_client_id = "None" THEN "okta.uuid4" ELSE cfg.oauth_client_id

\* get_redirect_uri
GetRedirectUri(cfg) == <<cfg.org, "/enduser/callback">>

\* get_oauth2_state: the digests of the random bytes it can draw
Oauth2States == {"s1", "s2"}

\* the alphabet of base64.urlsafe_b64encode
UrlsafeAlphabet ==
    <<"A", "B", "C", "D", "E", "F", "G", "H", "I", "J", "K", "L", "M", "N", "O", "P",
      "Q", "R", "S", "T", "U", "V", "W", "X", "Y", "Z", "a", "b", "c", "d", "e", "f",
      "g", "h", "i", "j", "k", "l", "m", "n", "o", "p", "q", "r", "s", "t", "u", "v",
      "w", "x", "y", "z", "0", "1", "2", "3", "4", "5", "6", "7", "8", "9", "-", "_">>

\* the four characters of three bytes
B64Group(b1, b2, b3) ==
    <<UrlsafeAlphabet[(b1 \div 4) + 1],
      UrlsafeAlphabet[((b1 % 4) * 16 + (b2 \div 16)) + 1],
      UrlsafeAlphabet[((b2 % 16) * 4 + (b3 \div 64)) + 1],
      UrlsafeAlphabet[(b3 % 64) + 1]>>

\* the i-th byte, zero past the end (the bits base64 fills a last group with)
ByteAt(bytes, i) == IF i <= Len(bytes) THEN bytes[i] ELSE 0

\* base64.urlsafe_b64encode: four characters for every three bytes, "=" in
\* the places of a last group that no byte reaches
UrlsafeB64Encode(bytes) ==
    [j \in 1..(4 * ((Len(bytes) + 2) \div 3)) |->
        LET g == (j - 1) \div 4
            r == (j - 1) % 4
        IN IF r > Len(bytes) - 3 * g
           THEN "="
           ELSE B64Group(ByteAt(bytes, 3 * g + 1), ByteAt(bytes, 3 * g + 2),
                         ByteAt(bytes, 3 * g + 3))[r + 1]]

\* the characters of [a-zA-Z0-9]
Alnum == {UrlsafeAlphabet[i] : i \in 1..62}

IsAlnum(c) == c \in Alnum

\* re.sub("[^a-zA-Z0-9]+", "", s)
StripNonAlnum(chars) == SelectSeq(chars, IsAlnum)

\* the argument of os.urandom in get_pkce_code_verifier
VerifierRandomBytes == 40

\* what os.urandom can return: runs of equal bytes, low, high and mixed
RandomByteValues == {0, 255}

RandomBytes ==
    {[i \in 1..VerifierRandomBytes |-> IF i <= k THEN x ELSE y] :
        k \in 0..VerifierRandomBytes, x \in RandomByteValues, y \in RandomByteValues}

RandomBytesFor(server) ==
    IF server = "plain"
    THEN {[i \in 1..VerifierRandomBytes |-> 0]}
    ELSE RandomBytes

\* get_pkce_code_verifier
GetPkceCodeVerifier(bytes) == StripNonAlnum(UrlsafeB64Encode(bytes))

\* get_pkce_code_challenge: the unpadded base64 of the SHA-256 digest of the
\* verifier, kept as the digest's name (two verifiers never share a digest)
GetPkceCodeChallenge(code_verifier) == <<"sha256">> \o code_verifier

\* get_pkce_code_challenge_method
GetPkceCodeChallengeMethod == "S256"

\* authorization_code_flow: authz_code_flow_data
AuthzCodeFlowData(cfg, doc, state, code_verifier) ==
    [client_id |-> GetClientId(cfg),
     redirect_uri |-> GetRedirectUri(cfg),
     response_type |-> "code",
     scope |-> "openid profile email okta",
     state |-> state,
     authz_endpoint_url |-> doc.authorization_endpoint,
     token_endpoint_url |-> doc.token_endpoint,
     grant_type |-> "authorization_code",
     code_verifier |-> code_verifier,
     code_challenge |-> GetPkceCodeChallenge(code_verifier),
     code_challenge_method |-> GetPkceCodeChallengeMethod]

\* session_cookies.get(name)
CookieGet(cookies, name) == IF cookies.kind = name THEN cookies.val ELSE "None"

\* oauth2_authorize_request: the parameters of the /authorize request
AuthorizePayload(data, cookies) ==
    [client_id |-> data.client_id,
     redirect_uri |-> data.redirect_uri,
     response_type |-> data.response_type,
     sessionToken |-> CookieGet(cookies, "session_token"),
     scope |-> data.scope,
     state |-> data.state,
     code_challenge |-> data.code_challenge,
     code_challenge_method |-> data.code_challenge_method,
     prompt |-> "none"]

\* a token request that proves possession with the challenge itself
TokenPayloadWithChallenge(data, authorize_code) ==
    [code |-> authorize_code,
     state |-> data.state,
     grant_type |-> data.grant_type,
     redirect_uri |-> data.redirect_uri,
     client_id |-> data.client_id,
     code_verifier |-> data.code_challenge]

\* get_oauth2_token: the form of the /token request
TokenPayload(data, authorize_code) ==
    [code |-> authorize_code,
     state |-> data.state,
     grant_type |-> data.grant_type,
     redirect_uri |-> data.redirect_uri,
     client_id |-> data.client_id,
     code_verifier |-> data.code_verifier]

\* the redirect URLs the authorize endpoint can answer with
Callbacks ==
    [error : {"absent", "access_denied"},
     error_description : {"absent", "desc"},
     code : {"absent", "c1"},
     state : {"absent", "s1", "s2"}]

CallbacksFor(server) ==
    IF server = "plain"
    THEN {[error |-> "absent", error_description |-> "absent", code |-> "c1", state |-> "s1"],
          [error |-> "absent", error_description |-> "absent", code |-> "absent",
           state |-> "s1"],
          [error |-> "access_denied", error_description |-> "desc", code |-> "absent",
           state |-> "s1"]}
    ELSE Callbacks

\* get_authorize_code: how it ends for a redirect URL
AuthorizeCodeEnd(cb) ==
    CASE cb.error # "absent" /\ cb.error_description = "absent" -> "AttributeError"
      [] cb.error # "absent" -> "AuthorizationDenied"
      [] cb.state = "absent" -> "AttributeError"
      [] OTHER -> "None"

\* get_authorize_code: the value it returns
AuthorizeCode(cb) == IF cb.code # "absent" THEN cb.code ELSE "None"

\* what oauth2_authorize returns
Oauth2AuthorizeResult(cookies, authz_token) == cookies

\* oauth2_authorize: get_oauth2_configuration and the grant test
Oauth2Configuration ==
    /\ pc = "oauth2_authorize"
    /\ outcome = "running"
    /\ Requests(<<Req("oauth-authorization-server", config.org)>>)
    /\ \E doc \in DiscoveryDocsFor(env.server) :
          /\ oauth' = [NoOauth EXCEPT !.oauth2_config = doc]
          /\ IF ValidateOauth2Configuration(doc) # "None"
             THEN /\ outcome' = ValidateOauth2Configuration(doc)
                  /\ pc' = "exit"
                  /\ UNCHANGED session_cookies
             ELSE /\ UNCHANGED outcome
                  /\ IF AuthorizationCodeEnabled(doc)
                     THEN pc' = "authorization_code_flow" /\ UNCHANGED session_cookies
                     ELSE /\ pc' = "idp_return"
                          /\ session_cookies' = Oauth2AuthorizeResult(session_cookies, "None")
    /\ UNCHANGED <<retval, frameVars, webfinger, message, html, extracted, ret, auth_properties, primary_auth, session_token,
                   pipeline, branch, saml_request, saml_response, state_token, jar, mfaVars, pushVars,
                   env, loopGhosts, prompts, masked>>

\* authorization_code_flow up to the authorization code: authz_code_flow_data,
\* oauth2_authorize_request, get_authorize_code
AuthorizeRequest ==
    /\ pc = "authorization_code_flow"
    /\ outcome = "running"
    /\ config' = [config EXCEPT !.oauth_client_id = GetClientId(config)]
    /\ \E code_verifier \in {GetPkceCodeVerifier(bytes) : bytes \in RandomBytesFor(env.server)},
          state \in Oauth2States, cb \in CallbacksFor(env.server) :
          LET data == AuthzCodeFlowData(config, oauth.oauth2_config, state, code_verifier)
          IN /\ Requests(<<ReqWith("authorize", data.authz_endpoint_url,
                                   AuthorizePayload(data, session_cookies))>>)
             /\ IF AuthorizeCodeEnd(cb) # "None"
                THEN /\ outcome' = AuthorizeCodeEnd(cb)
                     /\ pc' = "exit"
                     /\ oauth' = [oauth EXCEPT !.authz_code_flow_data = data,
                                               !.callback_url = cb]
                ELSE /\ oauth' = [oauth EXCEPT !.authz_code_flow_data = data,
                                               !.callback_url = cb,
                                               !.authorize_code = AuthorizeCode(cb)]
                     /\ pc' = "get_oauth2_token"
                     /\ UNCHANGED outcome
    /\ UNCHANGED <<retval, stack, webfinger, message, html, extracted, ret, auth_properties, primary_auth, session_token,
                   session_cookies, pipeline, branch, saml_request, saml_response, state_token, jar,
                   mfaVars, pushVars, env, loopGhosts, prompts, masked>>

\* the rest of authorization_code_flow and of oauth2_authorize:
\* get_oauth2_token, mask the token, return
TokenRequest ==
    /\ pc = "get_oauth2_token"
    /\ outcome = "running"
    /\ Requests(<<ReqWith("token", oauth.authz_code_flow_data.token_endpoint_url,
                          TokenPayload(oauth.authz_code_flow_data, oauth.authorize_code))>>)
    /\ \E t \in {"authz"} :
          /\ oauth' = [oauth EXCEPT !.authz_token = t]
          /\ masked' = Mask(masked, t)
          /\ session_cookies' = Oauth2AuthorizeResult(session_cookies, t)
    /\ pc' = "idp_return"
    /\ UNCHANGED <<outcome, retval, frameVars, webfinger, message, html, extracted, ret, auth_properties, primary_auth, session_token,
                   pipeline, branch, saml_request, saml_response, state_token, jar, mfaVars, pushVars,
                   env, loopGhosts, prompts>>

(***************************************************************************)
(* Initial states and specifications                                       *)
(***************************************************************************)
Config(mfa, mfa_response, oauth_client_id) ==
    [org |-> "https://sp", username |-> "user", password |-> "pw", mfa |-> mfa,
     mfa_response |-> mfa_response, oauth_client_id |-> oauth_client_id]

\* config.okta["mfa"]: no selector, or a string looked for in the labels
Selectors == {"None", "", "push", "OKTA", "totp", "zz"}

\* the configs user_authenticate is studied with
LocalConfigs == {Config(m, r, "None") : m \in Selectors, r \in {"None", "code"}}

\* the configs a whole login is studied with
LoginConfigs == {Config(m, "None", c) : m \in {"None", "push"}, c \in {"None", "cid"}}

\* the enrolled factors a whole login is studied with
LoginFactorLists ==
    {<<Factor("OKTA", "push", "a1"), Factor("OKTA", "token:software:totp", "b2")>>,
     <<Factor("DUO", "web", "d4")>>}

(***************************************************************************)
(* The extraction routines: extract_saml_response, extract_saml_request,   *)
(* extract_form_post_url, extract_saml_relaystate, extract_state_token     *)
(***************************************************************************)
\* the alphabet of the base64 codec
StdAlphabet == SubSeq(UrlsafeAlphabet, 1, 62) \o <<"+", "/">>

\* the codec skips what is not of the alphabet
B64Data(chars) == SelectSeq(chars, LAMBDA c : \E i \in 1..64 : StdAlphabet[i] = c)

\* binascii.a2b_base64 accepts the text: whole groups of four, or a last
\* group of two or three characters with its padding
B64Valid(chars) ==
    LET n == Len(B64Data(chars)) % 4
        pads == Len(SelectSeq(chars, LAMBDA c : c = "="))
    IN CASE n = 0 -> TRUE
         [] n = 1 -> FALSE
         [] n = 2 -> pads >= 2
         [] OTHER -> pads >= 1

\* codecs.decode(..., "base64"): the bytes of an accepted text
B64Decode(chars) ==
    LET d == B64Data(chars)
        at(i) == (CHOOSE j \in 1..64 : StdAlphabet[j] = d[i]) - 1
    IN [k \in 1..((Len(d) * 6) \div 8) |->
           LET g == 4 * ((k - 1) \div 3)
               p == (k - 1) % 3
           IN CASE p = 0 -> at(g + 1) * 4 + at(g + 2) \div 16
                [] p = 1 -> (at(g + 2) % 16) * 16 + at(g + 3) \div 4
                [] OTHER -> (at(g + 3) % 4) * 64 + at(g + 4)]

\* bytes.decode("utf-8") accepts the bytes: ASCII and two-byte characters
\* (longer characters do not occur in the documents below)
Utf8Valid(bytes) ==
    \A k \in 1..Len(bytes) :
        LET b == bytes[k]
        IN \/ b < 128
           \/ /\ b \in 194..223
              /\ k < Len(bytes)
              /\ bytes[k + 1] \in 128..191
           \/ /\ b \in 128..191
              /\ k > 1
              /\ bytes[k - 1] \in 194..223

\* str(elem.get("value")) of a SAML input: "QUJD" (ABC), "QUI=" (AB), "QUJ"
\* (a truncated blob), "/w==" (the byte 0xFF), or "None", which is str(None),
\* for an input without a value
SamlValues ==
    {<<"Q", "U", "J", "D">>, <<"Q", "U", "I", "=">>, <<"Q", "U", "J">>,
     <<"/", "w", "=", "=">>, <<"N", "o", "n", "e">>}

\* an input element missing from the document
NoElement == [tag |-> FALSE, value |-> <<>>]

\* the documents: the two SAML inputs, the RelayState input and the action
\* of the form appForm ("absent": no such element, "novalue": no such
\* attribute), and the script that assigns stateToken
NoDocument ==
    [SAMLRequest |-> NoElement, SAMLResponse |-> NoElement, RelayState |-> "absent",
     action |-> "absent", script |-> "None"]
Documents ==
    [SAMLRequest : {NoElement} \cup [tag : {TRUE}, value : SamlValues],
     SAMLResponse : {NoElement} \cup [tag : {TRUE}, value : SamlValues],
     RelayState : {"absent", "novalue", "rs"},
     action : {"absent", "novalue", "https://idp/sso"},
     script : ScriptTokens]

\* what a routine returned: None, a string, or decoded text (its bytes)
NoneValue == [kind |-> "None", chars |-> <<>>, bytes |-> <<>>]
StrValue(chars) == [kind |-> "str", chars |-> chars, bytes |-> <<>>]
TextValue(bytes) == [kind |-> "text", chars |-> <<>>, bytes |-> bytes]
NoExtraction == [routine |-> "None", raw |-> FALSE, val |-> NoneValue]

\* the body shared by extract_saml_response and extract_saml_request: the
\* value is decoded before `raw` is looked at
ExtractSaml(elem, raw) ==
    CASE ~elem.tag -> [end |-> "returned", val |-> NoneValue]
      [] elem.tag /\ ~B64Valid(elem.value) ->
             [end |-> "binascii.Error", val |-> NoneValue]
      [] elem.tag /\ B64Valid(elem.value) /\ ~Utf8Valid(B64Decode(elem.value)) ->
             [end |-> "UnicodeDecodeError", val |-> NoneValue]
      [] OTHER -> [end |-> "returned",
                   val |-> IF raw THEN StrValue(elem.value)
                           ELSE TextValue(B64Decode(elem.value))]

\* extract_form_post_url and extract_saml_relaystate: str() of the attribute
ExtractAttr(v) ==
    CASE v = "absent" -> NoneValue
      [] v = "novalue" -> StrValue(<<"'None'">>)
      [] OTHER -> StrValue(<<v>>)

\* a routine ends: it returned a value or raised
Extracted(routine, raw, r) ==
    /\ extracted' = [routine |-> routine, raw |-> raw, val |-> r.val]
    /\ outcome' = r.end
    /\ pc' = "exit"
    /\ UNCHANGED <<retval, frameVars, webfinger, message, html, ret, auth_properties,
                   primary_auth, session_token, session_cookies, pipeline, branch,
                   saml_request, saml_response, state_token, oauth, jar, mfaVars, pushVars,
                   env, netVars, loopGhosts, prompts, masked>>

ExtractSamlResponse ==
    /\ pc = "extract"
    /\ outcome = "running"
    /\ \E raw \in BOOLEAN :
          Extracted("extract_saml_response", raw, ExtractSaml(html.SAMLResponse, raw))

ExtractSamlRequest ==
    /\ pc = "extract"
    /\ outcome = "running"
    /\ \E raw \in BOOLEAN :
          Extracted("extract_saml_request", raw, ExtractSaml(html.SAMLRequest, raw))

ExtractFormPostUrl ==
    /\ pc = "extract"
    /\ outcome = "running"
    /\ Extracted("extract_form_post_url", FALSE,
                 [end |-> "returned", val |-> ExtractAttr(html.action)])

ExtractSamlRelaystate ==
    /\ pc = "extract"
    /\ outcome = "running"
    /\ Extracted("extract_saml_relaystate", FALSE,
                 [end |-> "returned", val |-> ExtractAttr(html.RelayState)])

ExtractStateTokenCall ==
    /\ pc = "extract"
    /\ outcome = "running"
    /\ Extracted("extract_state_token", FALSE,
                 [end |-> "returned",
                  val |-> IF ExtractStateToken(html.script) = "None" THEN NoneValue
                          ELSE StrValue(<<ExtractStateToken(html.script)>>)])

PushFactor == Factor("OKTA", "push", "a1")

InitAt(pc0, configs, envs, docs) ==
    /\ pc = pc0
    /\ outcome = "running"
    /\ retval = NoCookies
    /\ config \in configs
    /\ stack = <<>>
    /\ webfinger = "None"
    /\ message = <<>>
    /\ html \in docs
    /\ extracted = NoExtraction
    /\ ret = NoLinkProperties
    /\ auth_properties = NoAuthProperties
    /\ primary_auth = NoPrimaryAuth
    /\ session_token = "None"
    /\ session_cookies = NoCookies
    /\ pipeline = "None"
    /\ branch = "None"
    /\ saml_request = NoSamlRequest
    /\ saml_response = NoSamlResponse
    /\ state_token = "None"
    /\ oauth = NoOauth
    /\ jar = NoCookies
    /\ mfa_verify = EmptyResponse
    /\ status = "None"
    /\ result = "None"
    /\ response = EmptyResponse
    /\ challenge_displayed = FALSE
    /\ env \in envs
    /\ sent = {}
    /\ last = <<>>
    /\ polls = 0
    /\ sleeps = 0
    /\ waits = 0
    /\ prompts = [select |-> 0, code |-> 0]
    /\ notices = 0
    /\ masked = [v \in Sensitive |-> 0]
    /\ posted = {}

\* the state before the first step, no document in hand
InitWith(pc0, configs, envs) == InitAt(pc0, configs, envs, {NoDocument})

\* no factor selected yet
NoMfaSelection ==
    /\ index = 0
    /\ selected_mfa_option = NoFactor
    /\ mfa_challenge_url = "None"
    /\ payload = NoPayload
    /\ selected_factor = NoSelectedFactor

\* a whole login: idp_auth(config)
Init ==
    /\ InitWith("idp_auth", LoginConfigs,
                [enrolled : LoginFactorLists, budget : {MaxPolls}, server : {"plain"}])
    /\ NoMfaSelection

Next ==
    \/ GetAuthProperties
    \/ IdpAuthBranch
    \/ PrimaryAuth
    \/ GetSessionToken
    \/ UserAuthenticateReturn
    \/ MfaSelect
    \/ MfaPost
    \/ DuoVerify
    \/ PushStart
    \/ TotpApproval
    \/ UnsupportedProvider
    \/ PushPoll
    \/ PushExit
    \/ MfaReturn
    \/ LocalCookies
    \/ Saml2Begin
    \/ IdpAuthReturn
    \/ SendSamlRequest
    \/ SendSamlResponse
    \/ OieEnabled
    \/ Oauth2Configuration
    \/ AuthorizeRequest
    \/ TokenRequest

Spec == Init /\ [][Next]_vars

\* the interpreter runs the next statement for as long as there is one
FairSpec == Spec /\ WF_vars(Next)

\* the OAuth2 layer alone: oauth2_authorize(config, session_cookies) as idp_auth
\* calls it after a local authentication on the identity engine
InitOauth ==
    /\ pc = "oauth2_authorize"
    /\ outcome = "running"
    /\ retval = NoCookies
    /\ config \in LoginConfigs
    /\ stack = <<>>
    /\ webfinger = "properties"
    /\ message = <<>>
    /\ html = NoDocument
    /\ extracted = NoExtraction
    /\ ret = LinkProperties("OKTA", "https://sp")
    /\ auth_properties = AuthProperties(LinkProperties("OKTA", "https://sp"))
    /\ primary_auth = NoPrimaryAuth
    /\ session_token = "tok"
    /\ session_cookies = Cookies("sid", "https://sp", "tok")
    /\ pipeline = "idx"
    /\ branch = "local"
    /\ saml_request = NoSamlRequest
    /\ saml_response = NoSamlResponse
    /\ state_token = "None"
    /\ oauth = NoOauth
    /\ jar = NoCookies
    /\ mfa_verify = EmptyResponse
    /\ status = "None"
    /\ result = "None"
    /\ response = EmptyResponse
    /\ challenge_displayed = FALSE
    /\ env \in [enrolled : {<<PushFactor>>}, budget : {MaxPolls}, server : {"any"}]
    /\ sent = {}
    /\ last = <<>>
    /\ polls = 0
    /\ sleeps = 0
    /\ waits = 0
    /\ prompts = [select |-> 0, code |-> 0]
    /\ notices = 0
    /\ masked = [v \in Sensitive |-> 0]
    /\ posted = {}
    /\ NoMfaSelection

NextOauth ==
    \/ Oauth2Configuration
    \/ AuthorizeRequest
    \/ TokenRequest
    \/ IdpAuthReturn

SpecOauth == InitOauth /\ [][NextOauth]_vars

\* local authentication alone: user_authenticate(config)
InitLocal ==
    /\ InitWith("user_authenticate", LocalConfigs,
                [enrolled : FactorLists, budget : {MaxPolls}, server : {"local"}])
    /\ NoMfaSelection

NextLocal ==
    \/ PrimaryAuth
    \/ GetSessionToken
    \/ UserAuthenticateReturn
    \/ MfaSelect
    \/ MfaPost
    \/ DuoVerify
    \/ PushStart
    \/ TotpApproval
    \/ UnsupportedProvider
    \/ PushPoll
    \/ PushExit
    \/ MfaReturn

SpecLocal == InitLocal /\ [][NextLocal]_vars

\* local authentication when the process keeps running: a step that can be
\* taken is eventually taken
FairSpecLocal == SpecLocal /\ WF_vars(NextLocal)

\* the push polling engine alone: push_approval(mfa_challenge_url, payload),
\* entered as mfa_provider_type enters it
InitPushWith(envs) ==
    /\ InitWith("mfa_provider_type", {Config("push", "None", "None")}, envs)
    /\ index = 1
    /\ selected_mfa_option = PushFactor
    /\ mfa_challenge_url = VerifyHref(PushFactor)
    /\ payload = ChallengePayload("st", PushFactor)
    /\ selected_factor = [provider |-> "OKTA", factorType |-> "push"]

NextPush ==
    \/ PushStart
    \/ PushPoll
    \/ PushExit

InitPush ==
    InitPushWith([enrolled : {<<PushFactor>>}, budget : {MaxPolls}, server : {"any"}])

SpecPush == InitPush /\ [][NextPush]_vars

\* the polling engine facing a device nobody answers, for longer than the
\* wait window of the docstring
InitWait ==
    InitPushWith([enrolled : {<<PushFactor>>}, budget : {WaitWindow + 1},
                  server : {"slow"}])

SpecWait == InitWait /\ [][NextPush]_vars

\* the polling engine when the process keeps running: a step that can be
\* taken is eventually taken
FairSpecPush == SpecPush /\ WF_vars(NextPush)

\* the extraction routines alone, each applied to every document
InitExtract ==
    /\ InitAt("extract", {Config("None", "None", "None")},
              [enrolled : {<<>>}, budget : {0}, server : {"plain"}], Documents)
    /\ NoMfaSelection

NextExtract ==
    \/ ExtractSamlResponse
    \/ ExtractSamlRequest
    \/ ExtractFormPostUrl
    \/ ExtractSamlRelaystate
    \/ ExtractStateTokenCall

SpecExtract == InitExtract /\ [][NextExtract]_vars

(***************************************************************************)
(* Properties of push_approval                                             *)
(***************************************************************************)
PushFailures == {"PushRejected", "PushTimeout", "UnsupportedPushOutcome"}

\* the loop of push_approval has received at least one response
Polled == pc = "push_approval" /\ outcome = "running" /\ polls > 0

\* C7 as stated: whenever the latest poll response contains a session token,
\* push_approval stops polling and returns that response, whatever its status
\* and factorResult are.
C7_TokenAloneEndsPolling ==
    [][(Polled /\ response.sessionToken # "absent")
           => (pc' = "mfa_verified" /\ mfa_verify' = response /\ polls' = polls)]_vars

\* C7 amended: whenever the latest poll response has status SUCCESS and contains
\* a session token, push_approval stops polling and returns that response,
\* whatever factorResult it carries.
C7_SuccessWithTokenEndsPolling ==
    [][(Polled /\ response.status = "SUCCESS" /\ response.sessionToken # "absent")
           => (pc' = "mfa_verified" /\ mfa_verify' = response /\ polls' = polls
               /\ outcome' = "running")]_vars

\* C7 witness: a response with status SUCCESS, a token and factorResult REJECTED
\* has been returned as the success result
C7_Witness ==
    /\ pc = "mfa_verified"
    /\ polls > 0
    /\ mfa_verify.status = "SUCCESS"
    /\ mfa_verify.sessionToken = "tok2"
    /\ mfa_verify.factorResult = "REJECTED"

\* C8: push_approval starts waiting; it polls again exactly while the latest
\* response has status MFA_CHALLENGE and factorResult WAITING, an absent field
\* counting as neither; when it stops without a success it fails with
\* PushRejected for REJECTED, PushTimeout for TIMEOUT and UnsupportedPushOutcome
\* for everything else; nothing is polled after a failure.
C8_PollsExactlyWhileWaiting ==
    [][/\ (pc # "push_approval" /\ pc' = "push_approval")
              => (status' = "MFA_CHALLENGE" /\ result' = "WAITING" /\ polls' = polls)
       /\ (pc = "push_approval" /\ outcome = "running")
              => LET waiting == \/ polls = 0
                                \/ /\ response.status = "MFA_CHALLENGE"
                                   /\ response.factorResult = "WAITING"
                     success == /\ response.status = "SUCCESS"
                                /\ response.sessionToken # "absent"
                 IN IF waiting
                    THEN pc' = "push_approval" /\ polls' = polls + 1 /\ outcome' = "running"
                    ELSE /\ polls' = polls
                         /\ pc' # "push_approval"
                         /\ IF success THEN outcome' = "running"
                            ELSE outcome' =
                                   CASE response.factorResult = "REJECTED" -> "PushRejected"
                                     [] response.factorResult = "TIMEOUT" -> "PushTimeout"
                                     [] OTHER -> "UnsupportedPushOutcome"
       /\ (outcome \in PushFailures) => (polls' = polls /\ sent' = sent)]_vars

\* C8 witness: after two waiting answers a response without a factorResult
\* ended the loop with UnsupportedPushOutcome
C8_Witness ==
    /\ outcome = "UnsupportedPushOutcome"
    /\ waits = 2
    /\ polls = 3
    /\ response.status = "MFA_CHALLENGE"
    /\ response.factorResult = "absent"

\* C9 as stated: when k waiting answers were followed by a success, k+1 polls
\* were sent, each posting the unchanged challenge payload to the verify URL,
\* and exactly k one-second sleeps were made.
C9_OneSleepPerWaitingAnswer ==
    (pc = "mfa_verified" /\ polls > 0)
        => /\ polls = waits + 1
           /\ posted = {[url |-> mfa_challenge_url, payload |-> payload]}
           /\ sleeps = waits

\* C9 amended: when k waiting answers were followed by a success, k+1 polls
\* were sent, each posting the unchanged challenge payload to the verify URL,
\* and exactly k+1 one-second sleeps were made (one after every poll, the last
\* included).
C9_OneSleepPerPoll ==
    (pc = "mfa_verified" /\ polls > 0)
        => /\ polls = waits + 1
           /\ posted = {[url |-> mfa_challenge_url, payload |-> payload]}
           /\ payload = ChallengePayload("st", PushFactor)
           /\ sleeps = waits + 1

\* C9 witness: the answers WAITING, WAITING, SUCCESS have been received
C9_Witness ==
    /\ pc = "mfa_verified"
    /\ waits = 2
    /\ polls = 3
    /\ mfa_verify.status = "SUCCESS"
    /\ mfa_verify.factorResult = "absent"

\* C10: once push_approval has waited for the 5 minutes of its docstring it
\* terminates instead of polling again.
C10_NoPollAfterWaitWindow ==
    [][(pc = "push_approval" /\ sleeps >= WaitWindow) => (polls' = polls)]_vars

(***************************************************************************)
(* Properties of user_authenticate and the MFA challenge                   *)
(***************************************************************************)
\* C4: user_authenticate posts the credentials once; a response with an
\* errorCode ends in PrimaryAuthFailed and nothing is requested afterwards;
\* status SUCCESS with a sessionToken makes that token the result without any
\* MFA request or prompt; status MFA_REQUIRED enters the MFA challenge and the
\* token of its verification response is the result; every other status ends
\* in UnknownAuthStatus.  What user_authenticate returns is that result.
C4_PrimaryAuthOutcomes ==
    [][/\ (pc = "user_authenticate")
              => /\ last' = <<Req("authn", config.org)>>
                 /\ IF primary_auth'.errorCode # "absent"
                    THEN outcome' = "PrimaryAuthFailed"
                    ELSE outcome' = "running" /\ pc' = "token_loop"
       /\ (outcome = "PrimaryAuthFailed") => (sent' = sent /\ posted' = posted)
       /\ (pc = "token_loop" /\ session_token = "None")
              => CASE primary_auth.status = "SUCCESS" /\ primary_auth.sessionToken # "absent"
                        -> /\ session_token' = primary_auth.sessionToken
                           /\ pc' = "token_loop"
                           /\ outcome' = "running"
                           /\ sent' = {"authn"}
                           /\ prompts' = [select |-> 0, code |-> 0]
                   [] primary_auth.status = "MFA_REQUIRED"
                        -> pc' = "mfa_challenge" /\ outcome' = "running"
                   [] OTHER
                        -> outcome' = "UnknownAuthStatus" /\ sent' = {"authn"}
       /\ (pc = "mfa_verified" /\ pc' = "token_loop")
              => (primary_auth.status = "MFA_REQUIRED"
                  /\ session_token' = mfa_verify.sessionToken)
       /\ (pc' = "authenticated" /\ pc # "authenticated")
              => (pc = "token_loop" /\ session_token' = session_token
                  /\ session_token # "None")]_vars

\* C4 witness: user_authenticate returned the token of an MFA verification
\* after an MFA_REQUIRED response
C4_Witness ==
    /\ pc = "authenticated"
    /\ session_token = "tok2"
    /\ "verify" \in sent

\* C5: mfa_index matches a configured selector as a substring of every label
\* provider_factorType_id; with no match, or no selector, the interactive
\* selection is asked, once; with one match that index is taken and nothing is
\* asked; with several matches the process ends in AmbiguousMfaSelector and no
\* challenge has been posted.  A successful selection selects one factor of
\* the list, the one at the chosen index.
C5_SelectorMatching ==
    [][(pc = "mfa_challenge" /\ primary_auth.hasFactors)
           => LET mfa_options == primary_auth.factors
                  matches == IF config.mfa \in {"None", ""} THEN {}
                             ELSE {i \in 1..Len(mfa_options) :
                                     Substring(Chars[config.mfa], Label(mfa_options[i]))}
              IN /\ sent' = sent /\ posted' = posted
                 /\ CASE Cardinality(matches) = 0
                           -> /\ prompts'.select = prompts.select + 1
                              /\ index' \in 1..Len(mfa_options)
                              /\ selected_mfa_option' = mfa_options[index']
                              /\ outcome' = "running"
                      [] Cardinality(matches) = 1
                           -> /\ prompts' = prompts
                              /\ matches = {index'}
                              /\ selected_mfa_option' = mfa_options[index']
                              /\ outcome' = "running"
                      [] OTHER
                           -> /\ outcome' = "AmbiguousMfaSelector"
                              /\ prompts' = prompts
                              /\ "verify" \notin sent']_vars

\* C5 witness: the selector "push" matched only the second of two factors,
\* which was selected without a prompt
C5_Witness ==
    /\ pc = "mfa_post"
    /\ config.mfa = "push"
    /\ index = 2
    /\ selected_mfa_option = Factor("OKTA", "push", "a1")
    /\ prompts.select = 0

\* C6: the challenge is posted to the verify URL of the selected factor; then
\* provider DUO runs the DUO collaborator and posts to the same URL, OKTA with
\* push enters push_approval, OKTA or GOOGLE with token:software:totp or sms
\* posts a pass code, and every other combination ends in
\* UnsupportedMfaProvider without a verification post.
C6_ProviderDispatch ==
    [][/\ (pc = "mfa_post")
              => /\ mfa_challenge_url = selected_mfa_option.id
                 /\ last' = <<Req("verify", mfa_challenge_url)>>
                 /\ pc' = "mfa_provider_type"
       /\ (pc = "mfa_provider_type")
              => LET p == selected_factor.provider
                     t == selected_factor.factorType
                 IN CASE p = "DUO"
                           -> /\ last' = <<Req("duo", "duo"), Req("verify", mfa_challenge_url)>>
                              /\ pc' = "mfa_verified"
                      [] p = "OKTA" /\ t = "push"
                           -> /\ pc' = "push_approval"
                              /\ last' = <<>>
                              /\ posted' = posted
                      [] p \in {"OKTA", "GOOGLE"} /\ t \in {"token:software:totp", "sms"}
                           -> /\ last' = <<Req("verify", mfa_challenge_url)>>
                              /\ pc' = "mfa_verified"
                              /\ \E q \in posted' : q.payload.kind = "passcode"
                      [] OTHER
                           -> /\ outcome' = "UnsupportedMfaProvider"
                              /\ last' = <<>>
                              /\ sent' = sent
                              /\ posted' = posted]_vars

\* C6 witness: the challenge of a factor was answered by provider GOOGLE with
\* factor type push and the process ended in UnsupportedMfaProvider
C6_Witness ==
    /\ outcome = "UnsupportedMfaProvider"
    /\ selected_factor = [provider |-> "GOOGLE", factorType |-> "push"]
    /\ "verify" \in sent

(***************************************************************************)
(* Properties of idp_auth                                                  *)
(***************************************************************************)
\* the session cookies the local or the SAML2 branch of idp_auth produces
BranchArtifacts ==
    [kind : {"sid", "acs", "redirect"},
     org : {"https://sp", MyOrg} \cup {GetBaseUrl(PostUrlAt[i]) : i \in 1..Len(PostUrlAt)},
     val : Sensitive \cup {"stt", "st-t"}]

OauthEndpoints == {"oauth-authorization-server", "authorize", "token"}

\* C1: after discovery idp_auth branches on the identity type alone: OKTA goes
\* to user_authenticate, whose token is then turned into the session cookies
\* of the org; SAML2 goes to saml2_authenticate; every other type, None
\* included, ends in UnsupportedIdpDiscovery with no request sent since the
\* discovery.  Neither branch is entered for another type.
C1_BranchOnIdentityType ==
    [][/\ (pc = "idp_branch")
              => /\ last = <<Req("webfinger", config.org)>>
                 /\ CASE auth_properties.type = "OKTA"
                           -> /\ pc' = "user_authenticate"
                              /\ branch' = "local"
                              /\ outcome' = "running"
                      [] auth_properties.type = "SAML2"
                           -> /\ pc' = "saml2_authenticate"
                              /\ branch' = "saml2"
                              /\ outcome' = "running"
                      [] OTHER
                           -> /\ outcome' = "UnsupportedIdpDiscovery"
                              /\ last' = <<>>
                              /\ sent' = sent
                              /\ session_cookies' = NoCookies
       /\ (pc' = "user_authenticate" /\ pc # pc') => auth_properties.type = "OKTA"
       /\ (pc' = "saml2_authenticate" /\ pc # pc') => auth_properties.type = "SAML2"
       /\ (pc = "user_authenticate") => last' = <<Req("authn", config.org)>>
       /\ (pc = "authenticated")
              => /\ branch = "local"
                 /\ session_cookies' = Cookies("sid", config.org, session_token)
                 /\ jar' = session_cookies'
       /\ (pc = "saml2_authenticate")
              => /\ branch = "saml2"
                 /\ Len(last') = 1 /\ last'[1].ep = "sso_idps"
       /\ (outcome = "UnsupportedIdpDiscovery") => sent' = sent]_vars

\* C1 witness: the type of the configured org was absent and login ended in
\* UnsupportedIdpDiscovery after the discovery request alone
C1_Witness ==
    /\ outcome = "UnsupportedIdpDiscovery"
    /\ auth_properties.type = "None"
    /\ stack = <<>>
    /\ sent = {"webfinger"}

\* C2: when the pipeline of the org is idx and the authorization-code flow
\* obtained a token from the token endpoint, what login returns is that token
\* and not the session cookies of the local or SAML2 branch.
C2_LoginReturnsOauthToken ==
    (outcome = "returned" /\ pipeline = "idx" /\ oauth.authz_token # "None")
        => (retval.val = oauth.authz_token /\ retval.kind \notin {"sid", "acs", "redirect"})

\* C3: the pipeline of the org is queried only once the branch has produced
\* its session cookies; a request to the OAuth2 discovery, authorize or token
\* endpoint is only sent when the pipeline of the invocation is idx; with
\* pipeline v1 idp_auth goes straight to its return and returns the cookies
\* of the branch unchanged.
C3_PipelineGatesOauth ==
    [][/\ \A i \in 1..Len(last') :
              /\ (last'[i].ep = "okta-organization" /\ last' # last)
                     => /\ pc = "oie_enabled"
                        /\ branch \in {"local", "saml2"}
                        /\ session_cookies \in BranchArtifacts
                        /\ last'[i].to = config.org
              /\ (last'[i].ep \in OauthEndpoints /\ last' # last) => pipeline = "idx"
       /\ (pc = "oie_enabled" /\ pipeline' = "v1")
              => /\ pc' = "idp_return"
                 /\ session_cookies' = session_cookies
                 /\ sent' \cap OauthEndpoints = sent \cap OauthEndpoints
       /\ (pc = "idp_return" /\ pipeline = "v1")
              => /\ session_cookies \in BranchArtifacts
                 /\ session_cookies' = session_cookies
                 /\ stack = <<>> => (outcome' = "returned" /\ retval' = session_cookies)]_vars

\* C3 witness: login on a v1 org returned the cookies of the local branch and
\* no OAuth2 endpoint was ever requested
C3_Witness ==
    /\ outcome = "returned"
    /\ pipeline = "v1"
    /\ retval = Cookies("sid", "https://sp", "tok")
    /\ sent \cap OauthEndpoints = {}

(***************************************************************************)
(* Properties of SAML2 chaining                                            *)
(***************************************************************************)
\* the config of the invocation that frame i of the stack is waiting for
CalleeConfig(i) == IF i = Len(stack) THEN config ELSE stack[i + 1].config

\* C11: every SAML2 hop makes exactly one nested invocation of idp_auth, on a
\* config whose org is the origin of the post URL of that hop's form and that
\* is otherwise the caller's; nothing else nests or unnests; so at N hops the
\* N-th nested invocation runs, on the N-th identity provider; and once the
\* innermost user_authenticate has returned, login ends (returns or fails).
C11_OneInvocationPerHop ==
    /\ [][/\ (pc = "saml2_authenticate")
                 => /\ pc' = "idp_auth"
                    /\ Len(stack') = Len(stack) + 1
                    /\ stack'[Len(stack')].config = config
                    /\ config' = [config EXCEPT !.org = GetBaseUrl(saml_request'.post_url)]
                    /\ saml_request'.post_url \in {PostUrlAt[i] : i \in 1..Len(PostUrlAt)}
          /\ (Len(stack') > Len(stack)) => pc = "saml2_authenticate"
          /\ (Len(stack') < Len(stack))
                 => (pc = "idp_return" /\ Len(stack') = Len(stack) - 1
                     /\ pc' = "send_saml_request")]_vars
    /\ [](/\ \A i \in 1..Len(stack) :
                /\ stack[i].branch = "saml2"
                /\ CalleeConfig(i).org = GetBaseUrl(stack[i].saml_request.post_url)
          /\ config.org = IF stack = <<>> THEN "https://sp"
                          ELSE GetBaseUrl(PostUrlAt[Len(stack)]))
    /\ ((pc = "authenticated") ~> (outcome # "running"))

\* C11 witness: after two SAML2 hops the second nested invocation, on the
\* second identity provider, has finished its local authentication
C11_Witness ==
    /\ Len(stack) = 2
    /\ pc = "authenticated"
    /\ config.org = "https://idp2"
    /\ stack[1].config.org = "https://sp"

\* C12: the request sent to the identity provider goes to the post URL of the
\* relying party's form and carries the SAMLRequest and relay state of that
\* form; it is sent only from send_saml_request, entered when the nested
\* idp_auth has returned its session cookies, which are installed in the HTTP
\* client first; the post to the relying party carries the SAMLResponse and
\* RelayState of the identity provider's reply.
C12_BlobsForwardedUnchanged ==
    [][/\ (pc = "send_saml_request")
              => /\ last' = <<[ep |-> "idp_sso", to |-> PostUrlAt[Len(stack) + 1],
                               body |-> [SAMLRequest |-> RequestBlobAt[Len(stack) + 1],
                                         relayState |-> "rs"]]>>
                 /\ session_cookies \in BranchArtifacts
                 /\ jar' = session_cookies
       /\ (pc' = "send_saml_request" /\ pc # pc')
              => /\ pc = "idp_return"
                 /\ Len(stack') = Len(stack) - 1
                 /\ session_cookies \in BranchArtifacts
                 /\ session_cookies' = session_cookies
       /\ (\E i \in 1..Len(last') : last'[i].ep = "idp_sso" /\ last' # last)
              => pc = "send_saml_request"
       /\ (pc = "send_saml_response")
              => last'[1] = [ep |-> "sp_acs", to |-> "https://sp/sso/saml2",
                             body |-> [SAMLResponse |-> ResponseBlobAt[Len(stack) + 1],
                                       RelayState |-> "rs2"]]]_vars

\* C12 witness: in a chain of two hops the request of the second hop's form
\* has been sent to the second identity provider with the cookies of the
\* nested login installed
C12_Witness ==
    /\ pc = "send_saml_response"
    /\ Len(stack) = 1
    /\ last = <<ReqWith("idp_sso", "https://idp2/sso/saml",
                        [SAMLRequest |-> "req2", relayState |-> "rs"])>>
    /\ jar = Cookies("sid", "https://idp2", "tok")

\* C13: send_saml_response posts the SAML response and returns the cookies of
\* the reply when the reply embeds no state token (or an empty one); when it
\* embeds one, exactly one further request follows, a GET whose stateToken
\* parameter is that token, and the cookies of its reply are returned instead.
\* The GET is made nowhere else.
C13_StateTokenRedirect ==
    [][/\ (pc = "send_saml_response")
              => LET post == [ep |-> "sp_acs", to |-> saml_response.post_url,
                              body |-> [SAMLResponse |-> saml_response.response,
                                        RelayState |-> saml_response.relay_state]]
                 IN /\ pc' = "oie_enabled"
                    /\ IF state_token' \notin {"None", ""}
                       THEN /\ last' = <<post, [ep |-> "token_redirect", to |-> MyOrg,
                                                body |-> [stateToken |-> state_token']]>>
                            /\ session_cookies' = Cookies("redirect", MyOrg, state_token')
                       ELSE /\ last' = <<post>>
                            /\ session_cookies' =
                                   Cookies("acs", "https://sp", saml_response.response)
       /\ (\E i \in 1..Len(last') : last'[i].ep = "token_redirect" /\ last' # last)
              => pc = "send_saml_response"]_vars

\* C13 witness: the reply embedded an escaped state token, the GET carried the
\* decoded token and its cookies became the session cookies
C13_Witness ==
    /\ pc = "oie_enabled"
    /\ state_token = "st-t"
    /\ Len(last) = 2
    /\ last[2].body = [stateToken |-> "st-t"]
    /\ session_cookies = Cookies("redirect", MyOrg, "st-t")

\* the org of the config that the invocation at chaining depth d was given
OrgAtDepth(d) == IF d = 0 THEN "https://sp" ELSE GetBaseUrl(PostUrlAt[d])

\* C14: the org of a config passed to saml2_authenticate is never changed:
\* while the nested logins run, after they failed and after they returned, the
\* config of every suspended caller and of the running invocation has the org
\* it was called with; the identity-provider origin is only in the copy.
C14_CallerConfigUntouched ==
    /\ \A i \in 1..Len(stack) : stack[i].config.org = OrgAtDepth(i - 1)
    /\ config.org = OrgAtDepth(Len(stack))
    /\ (Len(stack) > 0) => config.org # stack[Len(stack)].config.org

\* C14 witness: login through a SAML2 hop has returned and the config login was
\* called with still names the relying party
C14_Witness ==
    /\ outcome = "returned"
    /\ branch = "saml2"
    /\ stack = <<>>
    /\ "sp_acs" \in sent
    /\ config.org = "https://sp"

(***************************************************************************)
(* Properties of the OAuth2 authorization-code layer                       *)
(***************************************************************************)
\* the document has the five fields validate_oauth2_configuration asks for
HasMandatoryItems(doc) ==
    \A f \in {"authorization_endpoint", "token_endpoint", "grant_types_supported",
              "response_types_supported", "scopes_supported"} : doc[f] # "absent"

\* C15: a discovery document that lacks one of the five mandatory fields ends
\* the login in InvalidOAuth2Config; one that has them all but whose grant
\* types lack authorization_code, or whose response types lack code, ends it
\* in UnsupportedGrantType; every other document lets the flow go on.  In the
\* failing cases the discovery request is the only one of the step, and no
\* authorize or token request is ever sent.
C15_DiscoveryValidation ==
    /\ [][(pc = "oauth2_authorize") =>
            LET doc == oauth'.oauth2_config
                supported == /\ doc.grant_types_supported = "authorization_code"
                             /\ doc.response_types_supported = "code"
            IN /\ ~HasMandatoryItems(doc) => outcome' = "InvalidOAuth2Config"
               /\ (HasMandatoryItems(doc) /\ ~supported) => outcome' = "UnsupportedGrantType"
               /\ (HasMandatoryItems(doc) /\ supported) => outcome' = "running"
               /\ (outcome' # "running") =>
                      /\ pc' = "exit"
                      /\ last' = <<Req("oauth-authorization-server", config.org)>>]_vars
    /\ [](outcome \in {"InvalidOAuth2Config", "UnsupportedGrantType"}
             => sent \cap {"authorize", "token"} = {})

\* C15 witness: a complete document with the right grant whose response types
\* lack code was refused after the discovery request alone
C15_Witness ==
    /\ outcome = "UnsupportedGrantType"
    /\ HasMandatoryItems(oauth.oauth2_config)
    /\ oauth.oauth2_config.grant_types_supported = "authorization_code"
    /\ oauth.oauth2_config.response_types_supported = "token"
    /\ sent = {"oauth-authorization-server"}

\* C16: when the discovery document has every mandatory field and its grant
\* types lack authorization_code, the OAuth2 flow is skipped: oauth2_authorize
\* hands back the session cookies it was given, the login goes on, and no
\* authorize or token request is sent.
C16_MissingGrantSkipsOauth ==
    [][(/\ pc = "oauth2_authorize"
        /\ HasMandatoryItems(oauth'.oauth2_config)
        /\ oauth'.oauth2_config.grant_types_supported # "authorization_code")
          => /\ outcome' = "running"
             /\ pc' = "idp_return"
             /\ session_cookies' = session_cookies
             /\ sent' \cap {"authorize", "token"} = {}]_vars

\* C17: a redirect that carries an error, with or without a description, ends
\* the login in AuthorizationDenied and no token request follows; a redirect
\* that carries a code and no error lets the flow go on, and the token request
\* exchanges exactly that code.
C17_RedirectErrorDenies ==
    /\ [][(pc = "authorization_code_flow") =>
            LET cb == oauth'.callback_url
            IN /\ (cb.error # "absent") =>
                      (outcome' = "AuthorizationDenied" /\ pc' = "exit")
               /\ (cb.error = "absent" /\ cb.code # "absent") =>
                      /\ outcome' = "running"
                      /\ pc' = "get_oauth2_token"
                      /\ oauth'.authorize_code = cb.code]_vars
    /\ [][(pc = "get_oauth2_token" /\ oauth.callback_url.code # "absent") =>
            last'[1].body.code = oauth.callback_url.code]_vars
    /\ [](oauth.callback_url.error \notin {"None", "absent"} => "token" \notin sent)

\* C18: the token request repeats the client id, the redirect URI and the
\* state of the authorize request, its grant type is authorization_code, its
\* code_verifier is the one whose S256 challenge the authorize request carried,
\* and the flow data both were read from is the same before and after.
C18_TokenRequestReusesFlowState ==
    [][(pc = "get_oauth2_token") =>
          LET a == last[1].body
              t == last'[1].body
              data == oauth.authz_code_flow_data
          IN /\ last[1].ep = "authorize"
             /\ last'[1].ep = "token"
             /\ a.client_id = data.client_id
             /\ t.client_id = a.client_id
             /\ t.redirect_uri = a.redirect_uri
             /\ t.state = a.state
             /\ t.grant_type = "authorization_code"
             /\ a.code_challenge_method = "S256"
             /\ GetPkceCodeChallenge(t.code_verifier) = a.code_challenge
             /\ oauth'.authz_code_flow_data = data]_vars

\* C18 witness: a token request went out for the second state value and a
\* client id given on the command line
C18_Witness ==
    /\ pc = "idp_return"
    /\ Len(last) = 1
    /\ last[1].ep = "token"
    /\ last[1].body.state = "s2"
    /\ last[1].body.client_id = "cid"
    /\ last[1].body.code_verifier = oauth.authz_code_flow_data.code_verifier
    /\ Len(last[1].body.code_verifier) > 0

\* C19: every code_verifier the flow builds has 43 to 128 characters, all of
\* them letters or digits, whatever bytes the random source returned.
C19_VerifierLengthAndAlphabet ==
    (oauth.authz_code_flow_data.grant_type = "authorization_code") =>
        LET v == oauth.authz_code_flow_data.code_verifier
        IN /\ Len(v) \in 43..128
           /\ \A i \in 1..Len(v) : IsAlnum(v[i])

(***************************************************************************)
(* Properties of the identity-type check                                   *)
(***************************************************************************)
\* C20: when the first link of the discovery reply has no identity-type
\* property, idp_auth ends the login in UnknownIdentityType, not in
\* UnsupportedIdpDiscovery, and sends no request after the discovery.
C20_MissingTypeIsUnknownIdentityType ==
    [][(pc = "idp_branch" /\ ret.type = "absent")
          => /\ outcome' = "UnknownIdentityType"
             /\ pc' = "exit"
             /\ sent' = sent]_vars

(***************************************************************************)
(* Properties of the MFA verification result                               *)
(***************************************************************************)
\* C21: whichever sub-flow was dispatched, a final verification response
\* without a sessionToken ends the challenge in MfaVerificationFailed: after a
\* DUO or one-time-code verification, and after the push loop has ended on a
\* response without one; no session token is handed to user_authenticate.
C21_MissingTokenFailsVerification ==
    /\ [][(pc = "mfa_verified" /\ mfa_verify.sessionToken = "absent")
             => /\ outcome' = "MfaVerificationFailed"
                /\ session_token' = session_token]_vars
    /\ [][(/\ pc = "push_approval"
           /\ ~(status = "MFA_CHALLENGE" /\ result = "WAITING")
           /\ response.sessionToken = "absent")
             => /\ outcome' = "MfaVerificationFailed"
                /\ session_token' = session_token]_vars

(***************************************************************************)
(* Properties of the configuration object                                  *)
(***************************************************************************)
\* C22: no step of a login changes a field of the config it runs on: the
\* config of the running invocation is the same after every step that neither
\* enters nor leaves a nested login, a nested login starts on a copy while the
\* caller's config is kept as it was, and the caller finds it unchanged when
\* the nested login returns.
C22_ConfigNeverMutated ==
    [][/\ (Len(stack') = Len(stack)) => config' = config
       /\ (Len(stack') > Len(stack)) => stack'[Len(stack')].config = config
       /\ (Len(stack') < Len(stack)) => config' = stack[Len(stack)].config]_vars

(***************************************************************************)
(* Properties of discovery parsing and of the error messages               *)
(***************************************************************************)
\* C23: a webfinger reply that is not JSON, has no links member, has an empty
\* links list or whose first link has no properties ends the login in
\* DiscoveryParseError and in no other failure.
C23_BadDiscoveryShapeIsParseError ==
    [][(/\ pc = "idp_auth"
        /\ webfinger' \in {"not_json", "no_links", "empty_links", "no_properties"})
          => /\ outcome' = "DiscoveryParseError"
             /\ pc' = "exit"]_vars

\* C24: when primary authentication is refused, the message built for an error
\* code of the table is "Okta auth failed: " followed by the table's text for
\* that code; for every other code, empty and null included, it is the
\* fallback sentence with the code in it.
C24_ErrorMessageTable ==
    [][(pc = "user_authenticate" /\ primary_auth'.errorCode # "absent") =>
          LET c == primary_auth'.errorCode
              fixed(text) == message' = <<"Okta auth failed: ", text>>
          IN /\ outcome' = "PrimaryAuthFailed"
             /\ (c = "E0000004") => fixed("Authentication failed")
             /\ (c = "E0000047") =>
                    fixed("API call exceeded rate limit due to too many requests")
             /\ (c = "PASSWORD_EXPIRED") => fixed("Your password has expired")
             /\ (c = "LOCKED_OUT") => fixed("Your account is locked out")
             /\ (c \notin {"E0000004", "E0000047", "PASSWORD_EXPIRED", "LOCKED_OUT"}) =>
                    message' = <<"Okta auth failed: ", c,
                                 ". Please verify your settings and try again.">>]_vars

\* C24 witness: a locked-out account was refused with the table's sentence
C24_Witness ==
    /\ outcome = "PrimaryAuthFailed"
    /\ primary_auth.errorCode = "LOCKED_OUT"
    /\ message = <<"Okta auth failed: ", "Your account is locked out">>

\* C24 witness for the fallback: an empty code was refused with the generic
\* sentence
C24_FallbackReached ==
    /\ outcome = "PrimaryAuthFailed"
    /\ primary_auth.errorCode = ""
    /\ Len(message) = 3

(***************************************************************************)
(* Properties of masking                                                   *)
(***************************************************************************)
\* C25: in the outermost login, the session token in hand, the SAML request
\* blob in hand and the SAML response blob in hand have each been registered
\* for masking exactly once, whichever path produced them.
C25_MaskedExactlyOnce ==
    (stack = <<>> /\ outcome = "running") =>
        /\ session_token # "None" => masked[session_token] = 1
        /\ saml_request.request \in Sensitive \ {"None"} => masked[saml_request.request] = 1
        /\ saml_response.response \in Sensitive \ {"None"} =>
               masked[saml_response.response] = 1

(***************************************************************************)
(* Properties of the push loop                                             *)
(***************************************************************************)
\* C26: an iteration of the push loop prints the number-challenge notice
\* exactly when its response carries a non-empty correctAnswer and no notice
\* was printed before; no other step prints one, so at most one notice is
\* printed and none when no response carries an answer.
C26_ChallengeShownOnce ==
    /\ [][(pc = "push_approval" /\ polls' = polls + 1) =>
             /\ notices' \in {notices, notices + 1}
             /\ (notices' = notices + 1) <=>
                    (response'.correctAnswer \notin {"None", ""} /\ notices = 0)]_vars
    /\ [][(pc = "push_approval" /\ polls' = polls) => notices' = notices]_vars
    /\ [](notices <= 1)

\* C26 witness: after two polls or more the latest response carries an answer
\* and one notice has been printed
C26_Witness ==
    /\ pc = "push_approval"
    /\ polls >= 2
    /\ response.correctAnswer = "42"
    /\ challenge_displayed
    /\ notices = 1

C28_ExtractionTotal ==
    (pc = "exit" /\ extracted.routine # "None") =>
        LET elem == CASE extracted.routine = "extract_saml_response" -> html.SAMLResponse.tag
                      [] extracted.routine = "extract_saml_request" -> html.SAMLRequest.tag
                      [] extracted.routine = "extract_form_post_url" -> html.action # "absent"
                      [] extracted.routine = "extract_saml_relaystate" ->
                             html.RelayState # "absent"
                      [] OTHER -> html.script # "None"
        IN /\ ~elem => (outcome = "returned" /\ extracted.val = NoneValue)
           /\ (extracted.routine = "extract_saml_response" /\ extracted.raw /\ elem) =>
                  /\ outcome = "returned"
                  /\ extracted.val = StrValue(html.SAMLResponse.value)
           /\ (extracted.routine = "extract_saml_request" /\ extracted.raw /\ elem) =>
                  /\ outcome = "returned"
                  /\ extracted.val = StrValue(html.SAMLRequest.value)

(***************************************************************************)
(* Properties of the session-token loop                                    *)
(***************************************************************************)
\* C29: user_authenticate terminates on a primary-authentication response that
\* has no errorCode and status SUCCESS, whatever its sessionToken (null
\* included): the loop `while session_token is None` is eventually left.
C29_TokenLoopTerminates ==
    (/\ pc = "token_loop"
     /\ primary_auth.errorCode = "absent"
     /\ primary_auth.status = "SUCCESS")
        ~> (pc # "token_loop")

(***************************************************************************)
(* Properties of the authorization code                                    *)
(***************************************************************************)
\* C30: the token request never carries an absent (None) code, and a redirect
\* that carries neither an error nor a code is never followed by the token
\* exchange.
C30_NoTokenRequestWithoutCode ==
    /\ [][(pc = "get_oauth2_token") => last'[1].body.code # "None"]_vars
    /\ [][(/\ pc = "authorization_code_flow"
           /\ oauth'.callback_url.error = "absent"
           /\ oauth'.callback_url.code = "absent")
             => pc' # "get_oauth2_token"]_vars

\* C31: a code is accepted only when the state of the redirect URL equals the
\* state sent in the authorize request: the code of a redirect whose state
\* differs from the sent one is not taken and no token exchange follows.
C31_StateMustMatch ==
    [][(/\ pc = "authorization_code_flow"
        /\ oauth'.callback_url.code # "absent"
        /\ oauth'.callback_url.state # oauth'.authz_code_flow_data.state)
          => /\ pc' # "get_oauth2_token"
             /\ oauth'.authorize_code = "None"]_vars

(***************************************************************************)
(* Properties of the addresses of requests                                 *)
(***************************************************************************)
\* C32: the state-token redirect GET that follows the post of the SAML
\* response is addressed to the org of the config given to the SAML handler,
\* the relying party's, whatever that org is.
C32_RedirectGoesToRelyingParty ==
    [][(pc = "send_saml_response") =>
          \A i \in 1..Len(last') :
              last'[i].ep = "token_redirect" => last'[i].to = config.org]_vars

====
